---- MODULE Spec2Model ----
(***************************************************************************)
(* Session lifecycle and WebRTC signaling relay of Mercury Connect.        *)
(* The store is the `sessions` and `sessionLogs` tables (drizzle schema),   *)
(* the handlers are the tRPC procedures of server/routers.ts, the store     *)
(* helpers are the functions of server/db.ts.                               *)
(*                                                                          *)
(* Every handler is translated into a plan: the outcome it returns and the  *)
(* ordered list of awaited store calls it makes, both computed from the     *)
(* session row the handler read at its start.  Spec runs each handler as    *)
(* one step (requests served one after another); SpecConc runs the awaited  *)
(* calls of two requests interleaved; SpecNotifier adds requests whose      *)
(* notifier call rejects; SpecQueries is the creation and query surface     *)
(* with the calendar bridge; SpecPolling adds the two polling pages and     *)
(* SpecPollingFair their timers; SpecFlowB is the client-offers signaling   *)
(* flow; SpecAuth is the login by emailed code of server/_core/context.ts.  *)
(***************************************************************************)
EXTENDS Integers, Sequences, FiniteSets, TLC

\* ------------------------------------------------------------------ bounds
MaxTime == 2          \* the clock runs 0..MaxTime
MaxCalls == 3         \* requests served in one behaviour of Spec
MaxConcCalls == 2     \* requests started in one behaviour of SpecConc

\* ------------------------------------------------------------- value sets
NULL == "NULL"                    \* SQL NULL of a varchar/text column
UNDEFINED == "undefined"          \* an optional zod input that was omitted
NoTime == 0 - 1                   \* SQL NULL of a timestamp column
NoUser == 0                       \* ctx.user === null

SessionIds == {"s1"}              \* ids generateSessionId can return
UnknownIds == {"s0"}              \* ids that name no row
AllIds == SessionIds \cup UnknownIds
Hosts == {1}                      \* users.id of the users who create sessions
Users == Hosts \cup {2}           \* users.id of authenticated callers
Callers == Users \cup {NoUser}
GeneratedPasswords == {"A1B2C3D4"}
Passwords == GeneratedPasswords \cup {"0BADBAD0"}
ClientNames == {"alice"}
Offers == {"OFFER1"}
Answers == {"ANSWER1"}
Candidates == {"cand1", "cand2"}
ExpiresIn == {1}                  \* expiresInMinutes, in clock units
Procs == {"p1", "p2"}             \* requests in flight at once (SpecConc)
ForwardedFor == {<<"10.0.0.1", "10.0.0.2">>}  \* x-forwarded-for, split on ','
getCalendarApiKey == "CALKEY"     \* the key derived from the cookie secret
ApiKeys == {getCalendarApiKey, "WRONGKEY"}
HostEmails == {"host@example.com", "nobody@example.com"}
CalendarEventIds == {"cal-event-123"}
CalendarSources == {"ops-platform"}

LoginEmails == HostEmails \cup {"Host@Example.com"}   \* addresses typed at login
GeneratedCodes == {"123456", "654321"}   \* codes generateVerificationCode returns

Statuses == {"waiting", "connecting", "connected", "disconnected", "expired"}

\* ------------------------------------------------------------------ state
VARIABLES
    sessions,        \* table sessions: sessionId -> row
    sessionLogs,     \* table sessionLogs: sequence of rows, in insertion order
    notifications,   \* notifyOwner calls made: sessionId -> [start, end] counts
    markWrites,      \* markNotificationSent writes: sessionId -> [start, end] counts
    now,             \* the clock (new Date())
    last,            \* the request that completed last: op, input, outcome, result
    requests,        \* number of requests accepted so far, creations apart
    procs,           \* requests in flight (SpecConc): proc -> state
    pages,           \* the client page and the host viewer (SpecPolling)
    verificationCodes  \* the login codes issued and not yet used, by email

vars == <<sessions, sessionLogs, notifications, markWrites, now, last, requests, procs,
          pages, verificationCodes>>

\* -------------------------------------------------------- login by code
\* String.prototype.toLowerCase on the addresses of the model
toLowerCase(email) == IF email = "Host@Example.com" THEN "host@example.com" ELSE email

\* The keys of the verificationCodes map: lowercased addresses.
StoredEmails == {toLowerCase(email) : email \in LoginEmails}

\* The users of the Ops Platform whose status is active.
ActiveOpsUsers == {"host@example.com"}

\* A code is valid for 10 minutes: one unit of the clock.
CodeLifetime == 1

\* ------------------------------------------------------ credential utility
\* The digest is one-way and deterministic; distinct inputs of the model
\* have distinct digests.
hashPassword(password) == <<"sha256", password>>

\* verifyPassword that only checks that a password was supplied.
verifyPasswordSupplied(password, hash) == password \notin {UNDEFINED, NULL, ""}

verifyPassword(password, hash) == hashPassword(password) = hash

\* JSON.stringify / JSON.parse of an array, as the text stored in a column:
\* the text of a list is the list between brackets, NULL is the empty text.
NullText == <<>>
JSONstringify(list) == <<"[">> \o list \o <<"]">>
JSONparse(text) == SubSeq(text, 2, Len(text) - 1)
\* JSON.stringify / JSON.parse of a session description object.
JSONstringifyObject(obj) == <<"{", obj, "}">>
JSONparseObject(text) == text[2]

Truthy(x) == x \notin {UNDEFINED, NULL, ""}

\* ------------------------------------------------------------ store calls
\* A new row that starts in status connecting.
NewSessionConnecting(id, sid, hash, host, expiresAt, autoRecord, t) ==
    [id |-> id, sessionId |-> sid, passwordHash |-> hash, status |-> "connecting",
     hostUserId |-> host, clientName |-> NULL, clientIp |-> NULL,
     hostOffer |-> NULL, clientAnswer |-> NULL,
     clientOffer |-> NullText, hostAnswer |-> NullText,
     hostIceCandidates |-> NullText, clientIceCandidates |-> NullText,
     startNotificationSent |-> FALSE, endNotificationSent |-> FALSE,
     autoRecord |-> autoRecord,
     calendarEventId |-> NULL, calendarSource |-> NULL,
     createdAt |-> t, connectedAt |-> NoTime, endedAt |-> NoTime,
     expiresAt |-> expiresAt]

NewSession(id, sid, hash, host, expiresAt, autoRecord, t) ==
    [id |-> id, sessionId |-> sid, passwordHash |-> hash, status |-> "waiting",
     hostUserId |-> host, clientName |-> NULL, clientIp |-> NULL,
     hostOffer |-> NULL, clientAnswer |-> NULL,
     clientOffer |-> NullText, hostAnswer |-> NullText,
     hostIceCandidates |-> NullText, clientIceCandidates |-> NullText,
     startNotificationSent |-> FALSE, endNotificationSent |-> FALSE,
     autoRecord |-> autoRecord,
     calendarEventId |-> NULL, calendarSource |-> NULL,
     createdAt |-> t, connectedAt |-> NoTime, endedAt |-> NoTime,
     expiresAt |-> expiresAt]

\* The row read by a handler: <<>> when no row has the id, <<row>> otherwise.
getSessionBySessionId(tbl, sid) ==
    IF sid \in DOMAIN tbl THEN <<tbl[sid]>> ELSE <<>>

\* db.update(sessions).set(data).where(sessionId = sid): the columns named in
\* data are written; no row matches an unknown id.  (A key whose value is
\* undefined is not part of data: drizzle skips it.)
updateSessionSignaling(tbl, sid, data) ==
    IF sid \notin DOMAIN tbl THEN tbl
    ELSE [tbl EXCEPT ![sid] =
            [f \in DOMAIN tbl[sid] |->
                IF f \in DOMAIN data THEN data[f] ELSE tbl[sid][f]]]

\* updateSessionStatus that also blanks the password hash of a session it
\* ends.
updateSessionStatusClearsHash(tbl, sid, status, t) ==
    IF sid \notin DOMAIN tbl THEN tbl
    ELSE IF status = "connected"
         THEN [tbl EXCEPT ![sid].status = status, ![sid].connectedAt = t]
    ELSE IF status \in {"disconnected", "expired"}
         THEN [tbl EXCEPT ![sid].status = status, ![sid].endedAt = t,
                          ![sid].passwordHash = hashPassword("")]
    ELSE [tbl EXCEPT ![sid].status = status]

\* updateSessionStatus that writes the status and no timestamp.
updateSessionStatusKeepsTimestamps(tbl, sid, status, t) ==
    IF sid \notin DOMAIN tbl THEN tbl
    ELSE [tbl EXCEPT ![sid].status = status]

updateSessionStatus(tbl, sid, status, t) ==
    IF sid \notin DOMAIN tbl THEN tbl
    ELSE IF status = "connected"
         THEN [tbl EXCEPT ![sid].status = status, ![sid].connectedAt = t]
    ELSE IF status \in {"disconnected", "expired"}
         THEN [tbl EXCEPT ![sid].status = status, ![sid].endedAt = t]
    ELSE [tbl EXCEPT ![sid].status = status]

markNotificationSent(tbl, sid, type) ==
    IF sid \notin DOMAIN tbl THEN tbl
    ELSE IF type = "start"
         THEN [tbl EXCEPT ![sid].startNotificationSent = TRUE]
         ELSE [tbl EXCEPT ![sid].endNotificationSent = TRUE]

\* details ? JSON.stringify(details) : null, the details object being the
\* flat list of its keys and values; a key whose value is undefined is left
\* out by JSON.stringify.
JSONstringifyDetails(pairs) == <<"{">> \o pairs \o <<"}">>

\* logSessionActivity that keeps one row per session and activity type: a
\* row of the same type is replaced by the new one.
logSessionActivityUpserts(logs, id, activityType, details) ==
    LET row == [sessionId |-> id, activityType |-> activityType,
                details |-> JSONstringifyDetails(details)]
        same(r) == r.sessionId = id /\ r.activityType = activityType
    IN IF \E i \in 1..Len(logs) : same(logs[i])
       THEN [i \in 1..Len(logs) |-> IF same(logs[i]) THEN row ELSE logs[i]]
       ELSE Append(logs, row)

logSessionActivity(logs, id, activityType, details) ==
    Append(logs, [sessionId |-> id, activityType |-> activityType,
                  details |-> JSONstringifyDetails(details)])

\* cleanupExpiredSessions that expires every session past expiresAt, whatever
\* its status.
cleanupExpiredSessionsAnyStatus(tbl, t) ==
    [sid \in DOMAIN tbl |->
        IF tbl[sid].expiresAt < t
        THEN [tbl[sid] EXCEPT !.status = "expired", !.endedAt = t]
        ELSE tbl[sid]]

cleanupExpiredSessions(tbl, t) ==
    [sid \in DOMAIN tbl |->
        IF tbl[sid].expiresAt < t /\ tbl[sid].status = "waiting"
        THEN [tbl[sid] EXCEPT !.status = "expired", !.endedAt = t]
        ELSE tbl[sid]]

\* ------------------------------------------------- awaited calls of a plan
\* One awaited call of a handler after its initial read.
SignalingCall(sid, data) == [call |-> "updateSessionSignaling", sid |-> sid, data |-> data]
StatusCall(sid, status) == [call |-> "updateSessionStatus", sid |-> sid, status |-> status]
LogCall(id, type, details) ==
    [call |-> "logSessionActivity", id |-> id, type |-> type, details |-> details]
NotifyCall(sid, kind) == [call |-> "notifyOwner", sid |-> sid, kind |-> kind]
MarkCall(sid, kind) == [call |-> "markNotificationSent", sid |-> sid, kind |-> kind]
GetUserCall(id) == [call |-> "getUserById", id |-> id]

Bump(counts, sid, kind) ==
    IF sid \notin DOMAIN counts THEN counts
    ELSE IF kind = "start"
         THEN [counts EXCEPT ![sid].start = @ + 1]
         ELSE [counts EXCEPT ![sid].end = @ + 1]

\* The store and the notifier as one value, and the effect of one call on it
\* at time t.
World == [sessions |-> sessions, sessionLogs |-> sessionLogs,
          notifications |-> notifications, markWrites |-> markWrites]

ApplyCall(w, c, t) ==
    CASE c.call = "updateSessionSignaling" ->
            [w EXCEPT !.sessions = updateSessionSignaling(w.sessions, c.sid, c.data)]
      [] c.call = "updateSessionStatus" ->
            [w EXCEPT !.sessions = updateSessionStatus(w.sessions, c.sid, c.status, t)]
      [] c.call = "logSessionActivity" ->
            [w EXCEPT !.sessionLogs = logSessionActivity(w.sessionLogs, c.id, c.type,
                                                      c.details)]
      [] c.call = "notifyOwner" ->
            [w EXCEPT !.notifications = Bump(w.notifications, c.sid, c.kind)]
      [] c.call = "markNotificationSent" ->
            [w EXCEPT !.sessions = markNotificationSent(w.sessions, c.sid, c.kind),
                      !.markWrites = Bump(w.markWrites, c.sid, c.kind)]
      [] OTHER -> w

RECURSIVE ApplyCalls(_, _, _)
ApplyCalls(w, calls, t) ==
    IF calls = <<>> THEN w
    ELSE ApplyCalls(ApplyCall(w, Head(calls), t), Tail(calls), t)

\* ------------------------------------------------------------ the handlers
OK == "ok"
NotFound == "Session not found"
NotFoundOrUnauthorized == "Session not found or unauthorized"
Expired == "Session has expired"
Ended == "Session has ended"
InvalidPassword == "Invalid password"
Unauthorized == "Unauthorized"
InvalidKey == "Invalid API key"
HostNotFound == "Host user not found"
CreateFailed == "Failed to create session"

NoResult == [success |-> FALSE]
Success == [success |-> TRUE]
Fail(outcome) == [outcome |-> outcome, calls |-> <<>>, result |-> NoResult]
Done(calls, result) == [outcome |-> OK, calls |-> calls, result |-> result]

\* The end notification without its endNotificationSent guard.
EndNotificationUnguarded(s, sid) ==
    <<NotifyCall(sid, "end"), MarkCall(sid, "end")>>

\* The end notification that sets the flag without calling the notifier.
EndNotificationMarksOnly(s, sid) ==
    IF ~s.endNotificationSent THEN <<MarkCall(sid, "end")>> ELSE <<>>

\* if (!session.endNotificationSent) { notifyOwner; markNotificationSent }
EndNotification(s, sid) ==
    IF ~s.endNotificationSent
    THEN <<NotifyCall(sid, "end"), MarkCall(sid, "end")>>
    ELSE <<>>

\* session.get that answers Unauthorized when there is no such session.
SessionGetUnauthorizedWhenMissing(snap, in, t) ==
    IF snap = <<>> \/ snap[1].hostUserId # in.user THEN Fail(Unauthorized)
    ELSE Done(<<>>, snap[1])

\* session.get
SessionGet(snap, in, t) ==
    IF snap = <<>> THEN Fail(NotFound)
    ELSE IF snap[1].hostUserId # in.user THEN Fail(Unauthorized)
    ELSE Done(<<>>, snap[1])

\* session.end
SessionEnd(snap, in, t) ==
    IF snap = <<>> \/ snap[1].hostUserId # in.user
    THEN Fail(NotFoundOrUnauthorized)
    ELSE Done(<<StatusCall(in.sid, "disconnected"),
                LogCall(snap[1].id, "session_ended", <<"endedBy", "host">>)>>
              \o EndNotification(snap[1], in.sid), Success)

\* Join details that also record the password the client typed.
JoinDetailsWithPassword(in) ==
    (IF in.clientName = UNDEFINED THEN <<>> ELSE <<"clientName", in.clientName>>)
    \o <<"clientIp">> \o in.forwardedFor \o <<"password", in.password>>

\* The details join logs: { clientName: input.clientName, clientIp }, clientIp
\* being the whole x-forwarded-for header.
JoinDetails(in) ==
    (IF in.clientName = UNDEFINED THEN <<>> ELSE <<"clientName", in.clientName>>)
    \o <<"clientIp">> \o in.forwardedFor

\* join that tests the stored status only, not expiresAt.
JoinStatusOnly(snap, in, t) ==
    IF snap = <<>> THEN Fail(NotFound)
    ELSE LET s == snap[1] IN
    IF s.status = "expired" THEN Fail(Expired)
    ELSE IF s.status = "disconnected" THEN Fail(Ended)
    ELSE IF ~verifyPassword(in.password, s.passwordHash) THEN Fail(InvalidPassword)
    ELSE LET clientIp == Head(in.forwardedFor)
             data == IF in.clientName = UNDEFINED
                     THEN [clientIp |-> clientIp]
                     ELSE [clientName |-> in.clientName, clientIp |-> clientIp]
         IN Done(<<SignalingCall(in.sid, data),
                   LogCall(s.id, "client_joined", JoinDetails(in))>>
                 \o (IF ~s.startNotificationSent
                     THEN <<GetUserCall(s.hostUserId),
                            NotifyCall(in.sid, "start"),
                            MarkCall(in.sid, "start")>>
                     ELSE <<>>),
                 [success |-> TRUE, sessionId |-> s.sessionId,
                  hostOffer |-> s.hostOffer])

\* join that also moves the session to connecting.
JoinSetsConnecting(snap, in, t) ==
    IF snap = <<>> THEN Fail(NotFound)
    ELSE LET s == snap[1] IN
    IF s.status = "expired" \/ s.expiresAt < t THEN Fail(Expired)
    ELSE IF s.status = "disconnected" THEN Fail(Ended)
    ELSE IF ~verifyPassword(in.password, s.passwordHash) THEN Fail(InvalidPassword)
    ELSE LET clientIp == Head(in.forwardedFor)
             data == IF in.clientName = UNDEFINED
                     THEN [clientIp |-> clientIp]
                     ELSE [clientName |-> in.clientName, clientIp |-> clientIp]
         IN Done(<<SignalingCall(in.sid, data),
                   StatusCall(in.sid, "connecting"),
                   LogCall(s.id, "client_joined", JoinDetails(in))>>
                 \o (IF ~s.startNotificationSent
                     THEN <<GetUserCall(s.hostUserId),
                            NotifyCall(in.sid, "start"),
                            MarkCall(in.sid, "start")>>
                     ELSE <<>>),
                 [success |-> TRUE, sessionId |-> s.sessionId,
                  hostOffer |-> s.hostOffer])

\* signaling.join
Join(snap, in, t) ==
    IF snap = <<>> THEN Fail(NotFound)
    ELSE LET s == snap[1] IN
    IF s.status = "expired" \/ s.expiresAt < t THEN Fail(Expired)
    ELSE IF s.status = "disconnected" THEN Fail(Ended)
    ELSE IF ~verifyPassword(in.password, s.passwordHash) THEN Fail(InvalidPassword)
    ELSE LET clientIp == Head(in.forwardedFor)
             data == IF in.clientName = UNDEFINED
                     THEN [clientIp |-> clientIp]
                     ELSE [clientName |-> in.clientName, clientIp |-> clientIp]
         IN Done(<<SignalingCall(in.sid, data),
                   LogCall(s.id, "client_joined", JoinDetails(in))>>
                 \o (IF ~s.startNotificationSent
                     THEN <<GetUserCall(s.hostUserId),
                            NotifyCall(in.sid, "start"),
                            MarkCall(in.sid, "start")>>
                     ELSE <<>>),
                 [success |-> TRUE, sessionId |-> s.sessionId,
                  hostOffer |-> s.hostOffer])

\* sendOffer that looks the session up but does not compare the caller.
SendOfferAnyCaller(snap, in, t) ==
    IF snap = <<>>
    THEN Fail(NotFoundOrUnauthorized)
    ELSE Done(<<SignalingCall(in.sid, [hostOffer |-> in.offer])>>, Success)

\* sendOffer that also moves the session to connecting.
SendOfferSetsConnecting(snap, in, t) ==
    IF snap = <<>> \/ snap[1].hostUserId # in.user
    THEN Fail(NotFoundOrUnauthorized)
    ELSE Done(<<SignalingCall(in.sid, [hostOffer |-> in.offer]),
                StatusCall(in.sid, "connecting")>>, Success)

\* sendOffer that writes back the whole row it read, with the offer set.
SendOfferWritesRow(snap, in, t) ==
    IF snap = <<>> \/ snap[1].hostUserId # in.user
    THEN Fail(NotFoundOrUnauthorized)
    ELSE Done(<<SignalingCall(in.sid, [snap[1] EXCEPT !.hostOffer = in.offer])>>,
              Success)

\* signaling.sendOffer
SendOffer(snap, in, t) ==
    IF snap = <<>> \/ snap[1].hostUserId # in.user
    THEN Fail(NotFoundOrUnauthorized)
    ELSE Done(<<SignalingCall(in.sid, [hostOffer |-> in.offer])>>, Success)

\* sendAnswer that stores the answer and logs but leaves the status as it is.
SendAnswerKeepsStatus(snap, in, t) ==
    IF snap = <<>> THEN Fail(NotFound)
    ELSE IF ~verifyPassword(in.password, snap[1].passwordHash)
    THEN Fail(InvalidPassword)
    ELSE Done(<<SignalingCall(in.sid, [clientAnswer |-> in.answer]),
                LogCall(snap[1].id, "host_connected", <<>>)>>, Success)

\* signaling.sendAnswer
SendAnswer(snap, in, t) ==
    IF snap = <<>> THEN Fail(NotFound)
    ELSE IF ~verifyPassword(in.password, snap[1].passwordHash)
    THEN Fail(InvalidPassword)
    ELSE Done(<<SignalingCall(in.sid, [clientAnswer |-> in.answer]),
                StatusCall(in.sid, "connected"),
                LogCall(snap[1].id, "host_connected", <<>>)>>, Success)

\* signaling.sendIceCandidate
SendIceCandidate(snap, in, t) ==
    IF snap = <<>> THEN Fail(NotFound)
    ELSE LET s == snap[1] IN
    IF in.from = "client" /\ Truthy(in.password)
       /\ ~verifyPassword(in.password, s.passwordHash)
    THEN Fail(InvalidPassword)
    ELSE IF in.from = "host" /\ in.user # s.hostUserId
    THEN Fail(Unauthorized)
    ELSE LET field == IF in.from = "host" THEN "hostIceCandidates"
                                          ELSE "clientIceCandidates"
             existing == IF s[field] # NullText THEN JSONparse(s[field]) ELSE <<>>
             pushed == Append(existing, in.candidate)
             data == IF in.from = "host"
                     THEN [hostIceCandidates |-> JSONstringify(pushed)]
                     ELSE [clientIceCandidates |-> JSONstringify(pushed)]
         IN Done(<<SignalingCall(in.sid, data)>>, Success)

\* getSignalingData that returns the four payload fields to both roles.
GetSignalingDataUnmasked(snap, in, t) ==
    IF snap = <<>> THEN Fail(NotFound)
    ELSE LET s == snap[1] IN
    IF in.role = "client" /\ Truthy(in.password)
       /\ ~verifyPassword(in.password, s.passwordHash)
    THEN Fail(InvalidPassword)
    ELSE IF in.role = "host" /\ in.user # s.hostUserId
    THEN Fail(Unauthorized)
    ELSE Done(<<>>,
              [status |-> s.status,
               hostOffer |-> s.hostOffer,
               clientAnswer |-> s.clientAnswer,
               hostIceCandidates |-> s.hostIceCandidates,
               clientIceCandidates |-> s.clientIceCandidates,
               clientName |-> s.clientName,
               autoRecord |-> s.autoRecord])

\* signaling.getSignalingData
GetSignalingData(snap, in, t) ==
    IF snap = <<>> THEN Fail(NotFound)
    ELSE LET s == snap[1] IN
    IF in.role = "client" /\ Truthy(in.password)
       /\ ~verifyPassword(in.password, s.passwordHash)
    THEN Fail(InvalidPassword)
    ELSE IF in.role = "host" /\ in.user # s.hostUserId
    THEN Fail(Unauthorized)
    ELSE Done(<<>>,
              [status |-> s.status,
               hostOffer |-> IF in.role = "client" THEN s.hostOffer ELSE NULL,
               clientAnswer |-> IF in.role = "host" THEN s.clientAnswer ELSE NULL,
               hostIceCandidates |-> IF in.role = "client" THEN s.hostIceCandidates
                                                           ELSE NullText,
               clientIceCandidates |-> IF in.role = "host" THEN s.clientIceCandidates
                                                           ELSE NullText,
               clientName |-> s.clientName,
               autoRecord |-> s.autoRecord])

\* input.iceCandidates ? JSON.stringify(input.iceCandidates) : null, the
\* optional array being <<>> when omitted and <<array>> when given.
IceText(optional) ==
    IF optional # <<>> THEN JSONstringify(optional[1]) ELSE NullText

\* sendOfferFromClient that stores the offer and leaves the status as it is.
SendOfferFromClientKeepsStatus(snap, in, t) ==
    IF snap = <<>> THEN Fail(NotFound)
    ELSE Done(<<SignalingCall(in.sid,
                    [clientOffer |-> JSONstringifyObject(in.offer),
                     clientIceCandidates |-> IceText(in.iceCandidates)])>>, Success)

\* signaling.sendOfferFromClient
SendOfferFromClient(snap, in, t) ==
    IF snap = <<>> THEN Fail(NotFound)
    ELSE Done(<<SignalingCall(in.sid,
                    [clientOffer |-> JSONstringifyObject(in.offer),
                     clientIceCandidates |-> IceText(in.iceCandidates)]),
                StatusCall(in.sid, "connecting")>>, Success)

\* signaling.sendAnswerFromHost
SendAnswerFromHost(snap, in, t) ==
    IF snap = <<>> \/ snap[1].hostUserId # in.user
    THEN Fail(NotFoundOrUnauthorized)
    ELSE Done(<<SignalingCall(in.sid,
                    [hostAnswer |-> JSONstringifyObject(in.answer),
                     hostIceCandidates |-> IceText(in.iceCandidates)]),
                StatusCall(in.sid, "connected")>>, Success)

\* signaling.getOffer; a result that is null is <<>>, a list is <<list>>
GetOffer(snap, in, t) ==
    IF snap = <<>> \/ snap[1].hostUserId # in.user
    THEN Fail(NotFoundOrUnauthorized)
    ELSE LET s == snap[1] IN
    IF s.clientOffer = NullText
    THEN Done(<<>>, [offer |-> NULL, iceCandidates |-> <<>>,
                     clientName |-> s.clientName])
    ELSE Done(<<>>, [offer |-> JSONparseObject(s.clientOffer),
                     iceCandidates |->
                        <<IF s.clientIceCandidates # NullText
                          THEN JSONparse(s.clientIceCandidates) ELSE <<>> >>,
                     clientName |-> s.clientName])

\* signaling.clientDisconnect
ClientDisconnect(snap, in, t) ==
    IF snap = <<>> THEN Fail(NotFound)
    ELSE Done(<<StatusCall(in.sid, "disconnected"),
                LogCall(snap[1].id, "client_disconnected", <<>>)>>
              \o EndNotification(snap[1], in.sid), Success)

\* signaling.updateStatus
UpdateStatus(snap, in, t) ==
    IF snap = <<>> THEN Fail(NotFound)
    ELSE Done(<<StatusCall(in.sid, in.status)>>
              \o (IF in.status = "disconnected"
                  THEN <<LogCall(snap[1].id, "disconnected", <<>>)>>
                       \o EndNotification(snap[1], in.sid)
                  ELSE <<>>), Success)

\* signaling.getAnswer; a result that is null is <<>>, a list is <<list>>
GetAnswer(snap, in, t) ==
    IF snap = <<>> THEN Fail(NotFound)
    ELSE LET s == snap[1] IN
    IF s.hostAnswer = NullText
    THEN Done(<<>>, [answer |-> NULL, iceCandidates |-> <<>>])
    ELSE Done(<<>>, [answer |-> JSONparseObject(s.hostAnswer),
                     iceCandidates |->
                        <<IF s.hostIceCandidates # NullText
                          THEN JSONparse(s.hostIceCandidates) ELSE <<>> >>])

\* getMeetingStatus that also reports the host's offer.
GetMeetingStatusWithOffer(snap, in, t) ==
    IF in.apiKey # getCalendarApiKey THEN Fail(InvalidKey)
    ELSE IF snap = <<>> THEN Fail(NotFound)
    ELSE LET s == snap[1] IN
         Done(<<>>, [sessionId |-> s.sessionId, status |-> s.status,
                     clientName |-> s.clientName, createdAt |-> s.createdAt,
                     connectedAt |-> s.connectedAt, endedAt |-> s.endedAt,
                     expiresAt |-> s.expiresAt, hostOffer |-> s.hostOffer])

\* getMeetingStatus that looks the session up before it compares the key.
GetMeetingStatusLooksUpFirst(snap, in, t) ==
    IF snap = <<>> THEN Fail(NotFound)
    ELSE IF in.apiKey # getCalendarApiKey THEN Fail(InvalidKey)
    ELSE LET s == snap[1] IN
         Done(<<>>, [sessionId |-> s.sessionId, status |-> s.status,
                     clientName |-> s.clientName, createdAt |-> s.createdAt,
                     connectedAt |-> s.connectedAt, endedAt |-> s.endedAt,
                     expiresAt |-> s.expiresAt])

\* calendar.getMeetingStatus
GetMeetingStatus(snap, in, t) ==
    IF in.apiKey # getCalendarApiKey THEN Fail(InvalidKey)
    ELSE IF snap = <<>> THEN Fail(NotFound)
    ELSE LET s == snap[1] IN
         Done(<<>>, [sessionId |-> s.sessionId, status |-> s.status,
                     clientName |-> s.clientName, createdAt |-> s.createdAt,
                     connectedAt |-> s.connectedAt, endedAt |-> s.endedAt,
                     expiresAt |-> s.expiresAt])

\* The plan of handler op for input in, given the row it read at time t.
Plan(op, snap, in, t) ==
    CASE op = "session.end" -> SessionEnd(snap, in, t)
      [] op = "session.get" -> SessionGet(snap, in, t)
      [] op = "signaling.getOffer" -> GetOffer(snap, in, t)
      [] op = "signaling.getAnswer" -> GetAnswer(snap, in, t)
      [] op = "signaling.join" -> Join(snap, in, t)
      [] op = "signaling.sendOffer" -> SendOffer(snap, in, t)
      [] op = "signaling.sendAnswer" -> SendAnswer(snap, in, t)
      [] op = "signaling.sendIceCandidate" -> SendIceCandidate(snap, in, t)
      [] op = "signaling.getSignalingData" -> GetSignalingData(snap, in, t)
      [] op = "signaling.sendOfferFromClient" -> SendOfferFromClient(snap, in, t)
      [] op = "signaling.sendAnswerFromHost" -> SendAnswerFromHost(snap, in, t)
      [] op = "signaling.clientDisconnect" -> ClientDisconnect(snap, in, t)
      [] op = "signaling.updateStatus" -> UpdateStatus(snap, in, t)
      [] op = "calendar.getMeetingStatus" -> GetMeetingStatus(snap, in, t)

\* ------------------------------------------------------------- the inputs
NoInput ==
    [sid |-> "", user |-> NoUser, password |-> UNDEFINED, clientName |-> UNDEFINED,
     forwardedFor |-> <<>>, offer |-> "", answer |-> "", candidate |-> "",
     from |-> "", role |-> "", status |-> "", iceCandidates |-> <<>>,
     apiKey |-> "", hostEmail |-> "", activeOnly |-> FALSE, email |-> "", code |-> ""]

OptionalIce == {<<>>, << <<>> >>, << <<"cand1">> >>}

KnownInputs(op) ==
    CASE op \in {"session.end", "session.get", "signaling.getOffer"} ->
            {[NoInput EXCEPT !.sid = sid, !.user = u] : sid \in SessionIds, u \in Users}
      [] op = "signaling.join" ->
            {[NoInput EXCEPT !.sid = sid, !.password = pw, !.clientName = n,
                             !.forwardedFor = ff] :
                sid \in SessionIds, pw \in Passwords,
                n \in ClientNames \cup {UNDEFINED}, ff \in ForwardedFor}
      [] op = "signaling.sendOffer" ->
            {[NoInput EXCEPT !.sid = sid, !.user = u, !.offer = o] :
                sid \in SessionIds, u \in Users, o \in Offers}
      [] op = "signaling.sendAnswer" ->
            {[NoInput EXCEPT !.sid = sid, !.password = pw, !.answer = a] :
                sid \in SessionIds, pw \in Passwords, a \in Answers}
      [] op = "signaling.sendIceCandidate" ->
            {[NoInput EXCEPT !.sid = sid, !.from = "client", !.password = pw,
                             !.candidate = c] :
                sid \in SessionIds, pw \in Passwords \cup {UNDEFINED}, c \in Candidates}
            \cup
            {[NoInput EXCEPT !.sid = sid, !.from = "host", !.user = u,
                             !.candidate = c] :
                sid \in SessionIds, u \in Callers, c \in Candidates}
      [] op = "signaling.getSignalingData" ->
            {[NoInput EXCEPT !.sid = sid, !.role = "client", !.password = pw] :
                sid \in SessionIds, pw \in Passwords \cup {UNDEFINED}}
            \cup
            {[NoInput EXCEPT !.sid = sid, !.role = "host", !.user = u] :
                sid \in SessionIds, u \in Callers}
      [] op = "signaling.sendOfferFromClient" ->
            {[NoInput EXCEPT !.sid = sid, !.offer = o, !.iceCandidates = ice] :
                sid \in SessionIds, o \in Offers, ice \in OptionalIce}
      [] op = "signaling.sendAnswerFromHost" ->
            {[NoInput EXCEPT !.sid = sid, !.user = u, !.answer = a,
                             !.iceCandidates = ice] :
                sid \in SessionIds, u \in Users, a \in Answers, ice \in OptionalIce}
      [] op \in {"signaling.clientDisconnect", "signaling.getAnswer"} ->
            {[NoInput EXCEPT !.sid = sid] : sid \in SessionIds}
      [] op = "signaling.updateStatus" ->
            {[NoInput EXCEPT !.sid = sid, !.status = st] :
                sid \in SessionIds, st \in {"connected", "disconnected"}}
      [] op = "calendar.getMeetingStatus" ->
            {[NoInput EXCEPT !.sid = sid, !.apiKey = k] :
                sid \in SessionIds, k \in ApiKeys}

\* The inputs of a request: every input that names a stored or storable id,
\* and for each unknown id one input per API key (the handlers read nothing
\* else of the input before they look the id up).
Inputs(op) ==
    KnownInputs(op) \cup
    {[in EXCEPT !.sid = sid] :
        in \in {CHOOSE x \in KnownInputs(op) : x.apiKey = k :
                    k \in {y.apiKey : y \in KnownInputs(op)}},
        sid \in UnknownIds}

\* ------------------------------------------------------------------- Init
Idle == [pc |-> "idle", op |-> "none", in |-> NoInput, outcome |-> OK,
         result |-> NoResult, calls |-> <<>>]

\* A page before its user acted: no interval is set (pollingRef.current is
\* null), no peer connection exists (peerConnectionRef.current is null), no
\* request was made; inflight are the poll responses not yet delivered, runs
\* the handleHostOffer calls that have not returned, pcs and answers count
\* the peer connections created and the sendAnswer requests sent.
Closed == [pollingRef |-> FALSE, state |-> "idle", in |-> NoInput,
           peerConnectionRef |-> FALSE, inflight |-> <<>>, runs |-> <<>>,
           pcs |-> 0, answers |-> 0]

Init ==
    /\ sessions = <<>>
    /\ sessionLogs = <<>>
    /\ notifications = <<>>
    /\ markWrites = <<>>
    /\ now = 0
    /\ requests = 0
    /\ last = [op |-> "none", in |-> NoInput, outcome |-> OK, result |-> NoResult]
    /\ procs = [p \in Procs |-> Idle]
    /\ pages = [page \in {"client", "host"} |-> Closed]
    /\ verificationCodes = [email \in StoredEmails |-> <<>>]

SetWorld(w) ==
    /\ sessions' = w.sessions
    /\ sessionLogs' = w.sessionLogs
    /\ notifications' = w.notifications
    /\ markWrites' = w.markWrites

\* ------------------------------------------------- requests served whole
\* One request served from its read to its return with no other request in
\* between: the store after its calls and the answer it returns.
Respond(op, in) ==
    LET plan == Plan(op, getSessionBySessionId(sessions, in.sid), in, now)
        w == ApplyCalls(World, plan.calls, now)
    IN /\ SetWorld(w)
       /\ last' = [op |-> op, in |-> in, outcome |-> plan.outcome,
                   result |-> plan.result]
       /\ UNCHANGED <<now, procs, verificationCodes>>

\* A request counted against the number of requests of a behaviour.
Request(op, in) ==
    /\ requests < MaxCalls
    /\ requests' = requests + 1
    /\ Respond(op, in)

\* A request of the client page: the page makes finitely many of them that
\* change anything (one join, one poll response at a time per interval
\* firing in flight, one sendAnswer per handleHostOffer), so they are not
\* counted.
PageRequest(op, in) == Respond(op, in) /\ UNCHANGED requests

\* A request made by a caller other than the two pages.
Serve(op, in) == Request(op, in) /\ UNCHANGED pages

\* session.create -> db.createSession
SessionCreate ==
    \E sid \in SessionIds \ DOMAIN sessions, u \in Hosts,
       pw \in GeneratedPasswords, e \in ExpiresIn, ar \in {FALSE} :
        LET id == Cardinality(DOMAIN sessions) + 1
            row == NewSession(id, sid, hashPassword(pw), u, now + e, ar, now)
        IN /\ sessions' = [x \in DOMAIN sessions \cup {sid} |->
                              IF x = sid THEN row ELSE sessions[x]]
           /\ sessionLogs' = logSessionActivity(sessionLogs, id, "session_created",
                                               <<"hostUserId", ToString(u)>>)
           /\ notifications' = [x \in DOMAIN sessions \cup {sid} |->
                              IF x = sid THEN [start |-> 0, end |-> 0]
                              ELSE notifications[x]]
           /\ markWrites' = [x \in DOMAIN sessions \cup {sid} |->
                              IF x = sid THEN [start |-> 0, end |-> 0]
                              ELSE markWrites[x]]
           /\ last' = [op |-> "session.create",
                       in |-> [NoInput EXCEPT !.user = u], outcome |-> OK,
                       result |-> [sessionId |-> sid, password |-> pw,
                                   expiresAt |-> now + e, autoRecord |-> ar]]
           /\ UNCHANGED <<now, requests, procs, pages, verificationCodes>>

SessionGetCall == \E in \in Inputs("session.get") : Serve("session.get", in)
GetOfferCall == \E in \in Inputs("signaling.getOffer") : Serve("signaling.getOffer", in)
SessionEndCall == \E in \in Inputs("session.end") : Serve("session.end", in)
JoinCall == \E in \in Inputs("signaling.join") : Serve("signaling.join", in)
SendOfferCall == \E in \in Inputs("signaling.sendOffer") : Serve("signaling.sendOffer", in)
SendAnswerCall == \E in \in Inputs("signaling.sendAnswer") : Serve("signaling.sendAnswer", in)
SendIceCandidateCall ==
    \E in \in Inputs("signaling.sendIceCandidate") : Serve("signaling.sendIceCandidate", in)
GetSignalingDataCall ==
    \E in \in Inputs("signaling.getSignalingData") : Serve("signaling.getSignalingData", in)
SendOfferFromClientCall ==
    \E in \in Inputs("signaling.sendOfferFromClient") :
        Serve("signaling.sendOfferFromClient", in)
SendAnswerFromHostCall ==
    \E in \in Inputs("signaling.sendAnswerFromHost") :
        Serve("signaling.sendAnswerFromHost", in)
ClientDisconnectCall ==
    \E in \in Inputs("signaling.clientDisconnect") : Serve("signaling.clientDisconnect", in)
UpdateStatusCall ==
    \E in \in Inputs("signaling.updateStatus") : Serve("signaling.updateStatus", in)
GetMeetingStatusCall ==
    \E in \in Inputs("calendar.getMeetingStatus") : Serve("calendar.getMeetingStatus", in)

\* the periodic sweep
CleanupCall ==
    /\ requests < MaxCalls
    /\ requests' = requests + 1
    /\ sessions' = cleanupExpiredSessions(sessions, now)
    /\ last' = [op |-> "cleanupExpiredSessions", in |-> NoInput, outcome |-> OK,
                result |-> Success]
    /\ UNCHANGED <<sessionLogs, notifications, markWrites, now, procs, pages, verificationCodes>>

\* time passes
Tick ==
    /\ now < MaxTime
    /\ now' = now + 1
    /\ UNCHANGED <<sessions, sessionLogs, notifications, markWrites, last, requests,
                   procs, pages, verificationCodes>>

Next ==
    \/ SessionCreate
    \/ SessionGetCall
    \/ GetOfferCall
    \/ SessionEndCall
    \/ JoinCall
    \/ SendOfferCall
    \/ SendAnswerCall
    \/ SendIceCandidateCall
    \/ GetSignalingDataCall
    \/ SendOfferFromClientCall
    \/ SendAnswerFromHostCall
    \/ ClientDisconnectCall
    \/ UpdateStatusCall
    \/ GetMeetingStatusCall
    \/ CleanupCall
    \/ Tick

Spec == Init /\ [][Next]_vars

\* --------------------------------------------- requests served interleaved
\* A handler runs to its first await (the read of the session row) and from
\* each await to the next without interruption; between two awaited calls of
\* one request the calls of another may run.

\* Request p starts: it reads the row and decides what it will do.  A request
\* that makes no further call returns at once.
Begin(p, op, in) ==
    LET plan == Plan(op, getSessionBySessionId(sessions, in.sid), in, now)
    IN /\ procs[p].pc = "idle"
       /\ requests < MaxConcCalls
       /\ requests' = requests + 1
       /\ IF plan.calls = <<>>
          THEN /\ last' = [op |-> op, in |-> in, outcome |-> plan.outcome,
                           result |-> plan.result]
               /\ procs' = procs
          ELSE /\ last' = last
               /\ procs' = [procs EXCEPT ![p] =
                              [pc |-> "running", op |-> op, in |-> in,
                               outcome |-> plan.outcome, result |-> plan.result,
                               calls |-> plan.calls]]
       /\ UNCHANGED <<sessions, sessionLogs, notifications, markWrites, now, pages, verificationCodes>>

\* Request p makes its next awaited call; after its last call it returns.
Step(p) ==
    /\ procs[p].pc = "running"
    /\ SetWorld(ApplyCall(World, Head(procs[p].calls), now))
    /\ IF Tail(procs[p].calls) = <<>>
       THEN /\ last' = [op |-> procs[p].op, in |-> procs[p].in,
                        outcome |-> procs[p].outcome, result |-> procs[p].result]
            /\ procs' = [procs EXCEPT ![p] = Idle]
       ELSE /\ last' = last
            /\ procs' = [procs EXCEPT ![p].calls = Tail(@)]
    /\ UNCHANGED <<now, requests, pages, verificationCodes>>

\* The requests started here carry the credentials their handler asks for
\* and name a stored session: a request that fails its checks makes no call
\* after its read and so interleaves with nothing.
ConcInputs(op) ==
    {in \in KnownInputs(op) :
        /\ in.user \in Hosts \cup {NoUser}
        /\ in.password \in GeneratedPasswords \cup {UNDEFINED}
        /\ in.from = "client" => in.password # UNDEFINED}

BeginSessionEnd(p) == \E in \in ConcInputs("session.end") : Begin(p, "session.end", in)
BeginJoin(p) == \E in \in ConcInputs("signaling.join") : Begin(p, "signaling.join", in)
BeginSendOffer(p) ==
    \E in \in ConcInputs("signaling.sendOffer") : Begin(p, "signaling.sendOffer", in)
BeginSendAnswer(p) ==
    \E in \in ConcInputs("signaling.sendAnswer") : Begin(p, "signaling.sendAnswer", in)
BeginSendIceCandidate(p) ==
    \E in \in ConcInputs("signaling.sendIceCandidate") :
        Begin(p, "signaling.sendIceCandidate", in)
BeginSendOfferFromClient(p) ==
    \E in \in ConcInputs("signaling.sendOfferFromClient") :
        Begin(p, "signaling.sendOfferFromClient", in)
BeginSendAnswerFromHost(p) ==
    \E in \in ConcInputs("signaling.sendAnswerFromHost") :
        Begin(p, "signaling.sendAnswerFromHost", in)
BeginClientDisconnect(p) ==
    \E in \in ConcInputs("signaling.clientDisconnect") :
        Begin(p, "signaling.clientDisconnect", in)
BeginUpdateStatus(p) ==
    \E in \in ConcInputs("signaling.updateStatus") : Begin(p, "signaling.updateStatus", in)

NextConc ==
    \/ SessionCreate
    \/ Tick
    \/ \E p \in Procs : BeginSessionEnd(p)
    \/ \E p \in Procs : BeginJoin(p)
    \/ \E p \in Procs : BeginSendOffer(p)
    \/ \E p \in Procs : BeginSendAnswer(p)
    \/ \E p \in Procs : BeginSendIceCandidate(p)
    \/ \E p \in Procs : BeginSendOfferFromClient(p)
    \/ \E p \in Procs : BeginSendAnswerFromHost(p)
    \/ \E p \in Procs : BeginClientDisconnect(p)
    \/ \E p \in Procs : BeginUpdateStatus(p)
    \/ \E p \in Procs : Step(p)

SpecConc == Init /\ [][NextConc]_vars

\* ------------------------------------------- requests whose notifier fails
\* notifyOwner is awaited with no try/catch: when it rejects, the handler
\* throws at that await, after the calls it made before and without the
\* ones that follow.
NotifierFailed == "Notification failed"

HasNotify(calls) == \E i \in 1..Len(calls) : calls[i].call = "notifyOwner"

RECURSIVE BeforeNotify(_)
BeforeNotify(calls) ==
    IF calls = <<>> \/ Head(calls).call = "notifyOwner" THEN <<>>
    ELSE <<Head(calls)>> \o BeforeNotify(Tail(calls))

NotifyingOps ==
    {"session.end", "signaling.join", "signaling.clientDisconnect",
     "signaling.updateStatus"}

ServeNotifierRejects(op, in) ==
    LET plan == Plan(op, getSessionBySessionId(sessions, in.sid), in, now)
    IN /\ HasNotify(plan.calls)
       /\ requests < MaxCalls
       /\ requests' = requests + 1
       /\ SetWorld(ApplyCalls(World, BeforeNotify(plan.calls), now))
       /\ last' = [op |-> op, in |-> in, outcome |-> NotifierFailed,
                   result |-> NoResult]
       /\ UNCHANGED <<now, procs, pages, verificationCodes>>

NotifierRejects ==
    \E op \in NotifyingOps : \E in \in Inputs(op) : ServeNotifierRejects(op, in)

NextNotifier ==
    \/ Next
    \/ NotifierRejects

SpecNotifier == Init /\ [][NextNotifier]_vars

\* ------------------------------------------- creation and query surface
\* The users table: the users who have logged in, by email.
usersByEmail == [e \in {"host@example.com"} |-> 1]

\* db.getUserByEmail; db is FALSE when getDb() returns null.
getUserByEmail(db, email) ==
    IF ~db THEN <<>>
    ELSE IF email \in DOMAIN usersByEmail THEN <<usersByEmail[email]>> ELSE <<>>

\* orderBy(desc(createdAt))
RECURSIVE OrderByCreatedAtDesc(_)
OrderByCreatedAtDesc(rows) ==
    IF rows = {} THEN <<>>
    ELSE LET r == CHOOSE x \in rows : \A y \in rows : y.createdAt <= x.createdAt
         IN <<r>> \o OrderByCreatedAtDesc(rows \ {r})

ListLimit == 50

\* db.getSessionsForHost
getSessionsForHost(tbl, hostUserId, limit) ==
    LET all == OrderByCreatedAtDesc(
                  {tbl[x] : x \in {y \in DOMAIN tbl : tbl[y].hostUserId = hostUserId}})
    IN SubSeq(all, 1, IF Len(all) < limit THEN Len(all) ELSE limit)

\* db.getActiveSessions
getActiveSessions(tbl, hostUserId) ==
    OrderByCreatedAtDesc(
        {tbl[x] : x \in {y \in DOMAIN tbl : /\ tbl[y].hostUserId = hostUserId
                                            /\ tbl[y].status = "waiting"}})

RECURSIVE Reverse(_)
Reverse(seq) == IF seq = <<>> THEN <<>> ELSE Reverse(Tail(seq)) \o <<Head(seq)>>

RECURSIVE RowsOf(_, _)
RowsOf(logs, id) ==
    IF logs = <<>> THEN <<>>
    ELSE (IF Head(logs).sessionId = id THEN <<Head(logs)>> ELSE <<>>)
         \o RowsOf(Tail(logs), id)

\* db.getSessionLogs: the rows of the session, latest first
getSessionLogs(logs, id) == Reverse(RowsOf(logs, id))

\* A request that only reads: it returns outcome and result and writes nothing.
Answer(op, in, outcome, result) ==
    /\ requests < MaxCalls
    /\ requests' = requests + 1
    /\ last' = [op |-> op, in |-> in, outcome |-> outcome, result |-> result]
    /\ UNCHANGED <<sessions, sessionLogs, notifications, markWrites, now, procs, pages, verificationCodes>>

\* session.list
SessionListCall ==
    \E u \in Users, active \in BOOLEAN :
        Answer("session.list", [NoInput EXCEPT !.user = u, !.activeOnly = active], OK,
               [rows |-> IF active THEN getActiveSessions(sessions, u)
                                   ELSE getSessionsForHost(sessions, u, ListLimit)])

\* session.logs
SessionLogsCall ==
    \E in \in Inputs("session.get") :
        LET snap == getSessionBySessionId(sessions, in.sid)
        IN IF snap = <<>> \/ snap[1].hostUserId # in.user
           THEN Answer("session.logs", in, NotFoundOrUnauthorized, NoResult)
           ELSE Answer("session.logs", in, OK,
                       [logs |-> getSessionLogs(sessionLogs, snap[1].id)])

GetAnswerCall == \E in \in Inputs("signaling.getAnswer") : Serve("signaling.getAnswer", in)

\* A create request that fails: the store keeps no trace of it.
Refuse(op, in, outcome) ==
    /\ last' = [op |-> op, in |-> in, outcome |-> outcome, result |-> NoResult]
    /\ UNCHANGED <<sessions, sessionLogs, notifications, markWrites, now, requests,
                   procs, pages, verificationCodes>>

\* session.create when getDb() returns null: createSession returns null
SessionCreateFails ==
    \E u \in Hosts : Refuse("session.create", [NoInput EXCEPT !.user = u], CreateFailed)

\* The optional calendarEventId and calendarSource of createMeeting.
CalendarRefs ==
    {[calendarEventId |-> UNDEFINED, calendarSource |-> UNDEFINED]} \cup
    {[calendarEventId |-> ev, calendarSource |-> src] :
        ev \in CalendarEventIds, src \in CalendarSources}

\* x || null for an optional string
OrNull(x) == IF Truthy(x) THEN x ELSE NULL

MercuryConnectUrl == "https://connect.mercuryholdings.co"

\* calendar.createMeeting -> db.createCalendarSession
CreateMeeting ==
    \E k \in ApiKeys, email \in HostEmails, e \in ExpiresIn, ref \in CalendarRefs,
       db \in BOOLEAN :
        LET in == [NoInput EXCEPT !.apiKey = k, !.hostEmail = email]
            host == getUserByEmail(db, email)
        IN IF k # getCalendarApiKey
           THEN Refuse("calendar.createMeeting", in, InvalidKey)
           ELSE IF host = <<>>
           THEN Refuse("calendar.createMeeting", in, HostNotFound)
           ELSE \E sid \in SessionIds \ DOMAIN sessions, pw \in GeneratedPasswords :
               LET id == Cardinality(DOMAIN sessions) + 1
                   row == [NewSession(id, sid, hashPassword(pw), host[1], now + e,
                                      FALSE, now)
                              EXCEPT !.calendarEventId = OrNull(ref.calendarEventId),
                                     !.calendarSource = OrNull(ref.calendarSource)]
                   details == <<"hostUserId", ToString(host[1])>>
                              \o (IF ref.calendarEventId = UNDEFINED THEN <<>>
                                  ELSE <<"calendarEventId", ref.calendarEventId>>)
                              \o (IF ref.calendarSource = UNDEFINED THEN <<>>
                                  ELSE <<"calendarSource", ref.calendarSource>>)
               IN /\ sessions' = [x \in DOMAIN sessions \cup {sid} |->
                                     IF x = sid THEN row ELSE sessions[x]]
                  /\ sessionLogs' = logSessionActivity(sessionLogs, id,
                                                       "session_created", details)
                  /\ notifications' = [x \in DOMAIN sessions \cup {sid} |->
                                     IF x = sid THEN [start |-> 0, end |-> 0]
                                     ELSE notifications[x]]
                  /\ markWrites' = [x \in DOMAIN sessions \cup {sid} |->
                                     IF x = sid THEN [start |-> 0, end |-> 0]
                                     ELSE markWrites[x]]
                  /\ last' = [op |-> "calendar.createMeeting", in |-> in,
                              outcome |-> OK,
                              result |-> [success |-> TRUE, sessionId |-> sid,
                                          password |-> pw,
                                          joinUrl |-> <<MercuryConnectUrl, "/join/",
                                                        sid, "?p=", pw>>,
                                          hostUrl |-> <<MercuryConnectUrl, "/viewer/",
                                                        sid>>,
                                          expiresAt |-> now + e]]
                  /\ UNCHANGED <<now, requests, procs, pages, verificationCodes>>

\* The requests that create sessions, read them, or carry the password.
NextQueries ==
    \/ SessionCreate
    \/ SessionCreateFails
    \/ CreateMeeting
    \/ SessionGetCall
    \/ SessionListCall
    \/ SessionLogsCall
    \/ JoinCall
    \/ SendAnswerCall
    \/ SendOfferFromClientCall
    \/ SendAnswerFromHostCall
    \/ GetSignalingDataCall
    \/ GetOfferCall
    \/ GetAnswerCall
    \/ GetMeetingStatusCall
    \/ Tick

SpecQueries == Init /\ [][NextQueries]_vars

\* ------------------------------------------------------ the polling pages
\* The client page (join link) and the host viewer poll getSignalingData on
\* an interval; pollingRef tells whether the interval of a page is set.
Page(polling, state, in) ==
    [Closed EXCEPT !.pollingRef = polling, !.state = state, !.in = in]

MaxInflight == 2      \* poll responses of the client page in flight at once

\* cleanup() of the client page: the interval is cleared and the peer
\* connection peerConnectionRef points to is closed and forgotten.  (That
\* connection is the one of the only run that is not closed, if any.)
cleanup(c) ==
    [c EXCEPT !.pollingRef = FALSE, !.peerConnectionRef = FALSE,
              !.runs = [i \in 1..Len(c.runs) |-> [c.runs[i] EXCEPT !.closed = TRUE]]]

\* handleHostOffer up to its first await: the interval is cleared, a peer
\* connection is created and stored in peerConnectionRef.  status is the
\* status of the poll result the caller tests when handleHostOffer returns
\* ("none" when the caller is handleJoin, which tests nothing).
StartHostOffer(c, status) ==
    [c EXCEPT !.pollingRef = FALSE, !.peerConnectionRef = TRUE, !.pcs = @ + 1,
              !.runs = Append(@, [status |-> status, closed |-> FALSE])]

\* What the caller of handleHostOffer does when it returns: the poll
\* callback tests result.status === 'disconnected'.
AfterHostOffer(c, run) ==
    IF run.status = "disconnected"
    THEN [cleanup(c) EXCEPT !.state = "disconnected"]
    ELSE c

Without(seq, i) == SubSeq(seq, 1, i - 1) \o SubSeq(seq, i + 1, Len(seq))

\* handleJoin of the client page: join, then answer the offer the join
\* returned or start polling for it.
HandleJoin ==
    \E in \in {x \in KnownInputs("signaling.join") : x.clientName # UNDEFINED} :
        LET plan == Plan("signaling.join", getSessionBySessionId(sessions, in.sid),
                         in, now)
            c == [pages.client EXCEPT !.in = in]
        IN /\ pages.client.state = "idle"
           /\ PageRequest("signaling.join", in)
           /\ pages' = [pages EXCEPT !.client =
                  IF plan.outcome # OK THEN [c EXCEPT !.state = "error"]
                  ELSE IF Truthy(plan.result.hostOffer) /\ ~c.peerConnectionRef
                       THEN StartHostOffer([c EXCEPT !.state = "connecting"], "none")
                       ELSE [c EXCEPT !.state = "lobby", !.pollingRef = TRUE]]

\* The interval of startPollingForHost fires: the callback fetches
\* getSignalingData; the response is in flight until the callback resumes.
PollForHost ==
    LET in == [NoInput EXCEPT !.sid = pages.client.in.sid, !.role = "client",
                              !.password = pages.client.in.password]
        plan == Plan("signaling.getSignalingData",
                     getSessionBySessionId(sessions, in.sid), in, now)
    IN /\ pages.client.pollingRef
       /\ Len(pages.client.inflight) < MaxInflight
       /\ PageRequest("signaling.getSignalingData", in)
       /\ pages' = [pages EXCEPT !.client.inflight =
              Append(@, IF plan.outcome = OK
                        THEN [hostOffer |-> plan.result.hostOffer,
                              status |-> plan.result.status]
                        ELSE [hostOffer |-> NULL, status |-> "none"])]

\* The poll callback that tests only whether the session is disconnected.
PollForHostReturnsIgnoresOffer ==
    \E i \in 1..Len(pages.client.inflight) :
        LET r == pages.client.inflight[i]
            c == [pages.client EXCEPT !.inflight = Without(@, i)]
        IN /\ pages' = [pages EXCEPT !.client =
                  IF r.status = "disconnected"
                  THEN [cleanup(c) EXCEPT !.state = "disconnected"]
                  ELSE c]
           /\ UNCHANGED <<sessions, sessionLogs, notifications, markWrites, now, last,
                          requests, procs, verificationCodes>>

\* The callback of startPollingForHost resumes with a response: it handles
\* the host's offer when there is one and no peer connection exists, and
\* otherwise cleans up when the session is disconnected.
PollForHostReturns ==
    \E i \in 1..Len(pages.client.inflight) :
        LET r == pages.client.inflight[i]
            c == [pages.client EXCEPT !.inflight = Without(@, i)]
        IN /\ pages' = [pages EXCEPT !.client =
                  IF Truthy(r.hostOffer) /\ ~c.peerConnectionRef
                  THEN StartHostOffer(c, r.status)
                  ELSE IF r.status = "disconnected"
                  THEN [cleanup(c) EXCEPT !.state = "disconnected"]
                  ELSE c]
           /\ UNCHANGED <<sessions, sessionLogs, notifications, markWrites, now, last,
                          requests, procs, verificationCodes>>

\* handleHostOffer of the client page, from the answer it created on: it
\* sends the answer and shows the meeting as connected; its caller then
\* tests the status it polled.  (The browser's WebRTC calls are taken to
\* succeed on a peer connection that is open.)
HandleHostOffer ==
    \E a \in Answers, i \in 1..Len(pages.client.runs) :
        LET run == pages.client.runs[i]
            c == [pages.client EXCEPT !.runs = Without(@, i), !.answers = @ + 1,
                                      !.state = "connected"]
        IN /\ PageRequest("signaling.sendAnswer",
                          [NoInput EXCEPT !.sid = pages.client.in.sid,
                                          !.password = pages.client.in.password,
                                          !.answer = a])
           /\ pages' = [pages EXCEPT !.client = AfterHostOffer(c, run)]

\* handleHostOffer on a peer connection that cleanup() closed meanwhile: a
\* WebRTC call throws, the catch block shows the error, no answer is sent.
HandleHostOfferFails ==
    \E i \in 1..Len(pages.client.runs) :
        LET run == pages.client.runs[i]
            c == [pages.client EXCEPT !.runs = Without(@, i), !.state = "error"]
        IN /\ run.closed
           /\ pages' = [pages EXCEPT !.client = AfterHostOffer(c, run)]
           /\ UNCHANGED <<sessions, sessionLogs, notifications, markWrites, now, last,
                          requests, procs, verificationCodes>>

\* onicegatheringstatechange of the viewer: send the offer, then start
\* polling for the answer; resetConnection when the offer is refused.
HostSendsOffer ==
    \E in \in KnownInputs("signaling.sendOffer") :
        LET plan == Plan("signaling.sendOffer",
                         getSessionBySessionId(sessions, in.sid), in, now)
        IN /\ pages.host.state = "idle"
           /\ Request("signaling.sendOffer", in)
           /\ pages' = [pages EXCEPT !.host =
                  IF plan.outcome = OK THEN Page(TRUE, "waiting", in) ELSE Closed]

\* The interval callback of startPollingForAnswer.
PollForAnswer ==
    LET in == [NoInput EXCEPT !.sid = pages.host.in.sid, !.role = "host",
                              !.user = pages.host.in.user]
        plan == Plan("signaling.getSignalingData",
                     getSessionBySessionId(sessions, in.sid), in, now)
    IN /\ pages.host.pollingRef
       /\ Request("signaling.getSignalingData", in)
       /\ pages' = [pages EXCEPT !.host =
              IF plan.outcome = OK /\ plan.result.status = "disconnected"
              THEN Closed
              ELSE IF plan.outcome = OK /\ Truthy(plan.result.clientAnswer)
              THEN Page(FALSE, "connecting", pages.host.in)
              ELSE pages.host]

NextPolling ==
    \/ SessionCreate
    \/ HandleJoin
    \/ PollForHost
    \/ PollForHostReturns
    \/ HandleHostOffer
    \/ HandleHostOfferFails
    \/ HostSendsOffer
    \/ PollForAnswer
    \/ SessionEndCall
    \/ CleanupCall
    \/ Tick

SpecPolling == Init /\ [][NextPolling]_vars

\* The client page under its scheduling: while the interval is set it fires
\* again and again (setInterval, every 2 s), a response in flight is
\* delivered, and a handleHostOffer that was started runs to its end.
SpecPollingFair ==
    /\ SpecPolling
    /\ WF_vars(PollForHost)
    /\ WF_vars(PollForHostReturns)
    /\ WF_vars(HandleHostOffer)

\* ------------------------------------------------- the client-first flow
\* The requests of the flow in which the client sends the offer: the client
\* joins and pushes its offer, the host reads it and answers, the client
\* reads the answer; either side may trickle candidates at any time.
NextFlowB ==
    \/ SessionCreate
    \/ JoinCall
    \/ SendIceCandidateCall
    \/ SendOfferFromClientCall
    \/ SendAnswerFromHostCall
    \/ GetOfferCall
    \/ GetAnswerCall
    \/ Tick

SpecFlowB == Init /\ [][NextFlowB]_vars

\* -------------------------------------------------------- login by code
NotActive == "This email is not associated with an active Mercury Holdings account."
SendFailed == "Failed to send verification email. Please try again."
NoCode == "No verification code found. Please request a new code."
CodeExpired == "Verification code has expired. Please request a new code."
InvalidCode == "Invalid verification code. Please try again."
UserNotFound == "User account not found or inactive."

\* isActiveOpsUser; up is FALSE when the Supabase query fails
isActiveOpsUser(up, email) == up /\ toLowerCase(email) \in ActiveOpsUsers

\* requestVerificationCode: codes is the map before the call, code the
\* generated code, sent what sendVerificationEmail returns.
requestVerificationCode(codes, email, code, t, up, sent) ==
    IF ~isActiveOpsUser(up, email)
    THEN [codes |-> codes, outcome |-> NotActive]
    ELSE [codes |-> [codes EXCEPT ![toLowerCase(email)] =
                        <<[code |-> code, expiresAt |-> t + CodeLifetime,
                           email |-> toLowerCase(email)]>>],
          outcome |-> IF sent THEN OK ELSE SendFailed]

\* verifyCode that keeps the entry of a code it accepted.
verifyCodeKeepsEntry(codes, email, code, t, found) ==
    LET key == toLowerCase(email)
        stored == codes[key]
    IN IF stored = <<>> THEN [codes |-> codes, outcome |-> NoCode]
       ELSE IF t > stored[1].expiresAt
       THEN [codes |-> [codes EXCEPT ![key] = <<>>], outcome |-> CodeExpired]
       ELSE IF stored[1].code # code THEN [codes |-> codes, outcome |-> InvalidCode]
       ELSE [codes |-> codes, outcome |-> IF found THEN OK ELSE UserNotFound]

\* verifyCode; found is whether getActiveOpsUser returns a user
verifyCode(codes, email, code, t, found) ==
    LET key == toLowerCase(email)
        stored == codes[key]
    IN IF stored = <<>> THEN [codes |-> codes, outcome |-> NoCode]
       ELSE IF t > stored[1].expiresAt
       THEN [codes |-> [codes EXCEPT ![key] = <<>>], outcome |-> CodeExpired]
       ELSE IF stored[1].code # code THEN [codes |-> codes, outcome |-> InvalidCode]
       ELSE [codes |-> [codes EXCEPT ![key] = <<>>],
             outcome |-> IF found THEN OK ELSE UserNotFound]

cleanupExpiredCodes(codes, t) ==
    [email \in DOMAIN codes |->
        IF codes[email] # <<>> /\ t > codes[email][1].expiresAt THEN <<>>
        ELSE codes[email]]

\* A call of the login helper: it changes the map of codes only.
AuthCall(op, email, code, after) ==
    /\ verificationCodes' = after.codes
    /\ last' = [op |-> op, in |-> [NoInput EXCEPT !.email = email, !.code = code],
                outcome |-> after.outcome,
                result |-> IF after.outcome = OK THEN Success ELSE NoResult]
    /\ UNCHANGED <<sessions, sessionLogs, notifications, markWrites, now, requests,
                   procs, pages>>

\* auth.requestCode
RequestCode ==
    \E email \in LoginEmails, code \in GeneratedCodes, up \in BOOLEAN, sent \in BOOLEAN :
        AuthCall("auth.requestCode", email, code,
                 requestVerificationCode(verificationCodes, email, code, now, up, sent))

\* auth.verifyCode
VerifyCode ==
    \E email \in LoginEmails, code \in GeneratedCodes, found \in BOOLEAN :
        AuthCall("auth.verifyCode", email, code,
                 verifyCode(verificationCodes, email, code, now, found))

\* setInterval(cleanupExpiredCodes, 5 minutes)
CleanupExpiredCodes ==
    AuthCall("cleanupExpiredCodes", "", "",
             [codes |-> cleanupExpiredCodes(verificationCodes, now), outcome |-> OK])

NextAuth ==
    \/ RequestCode
    \/ VerifyCode
    \/ CleanupExpiredCodes
    \/ Tick

SpecAuth == Init /\ [][NextAuth]_vars

\* ================================================================ claims
\* A step that serves a whole request of handler op (Spec).
Served(op) == requests' = requests + 1 /\ last'.op = op

\* The session a served request names, when it is stored.
Named == last'.in.sid \in DOMAIN sessions
Row == sessions[last'.in.sid]

Terminal == {"disconnected", "expired"}
PastExpiry(s, t) == s.expiresAt < t
IsExpired(s, t) == s.status = "expired" \/ PastExpiry(s, t)

StoreUnchanged ==
    UNCHANGED <<sessions, sessionLogs, notifications, markWrites>>

\* The activity types of the rows of a log, in insertion order.
ActivityTypes(logs) == [i \in 1..Len(logs) |-> logs[i].activityType]

\* Number of rows of the log of session id whose type is in types.
RECURSIVE CountRows(_, _, _)
CountRows(logs, id, types) ==
    IF logs = <<>> THEN 0
    ELSE (IF Head(logs).sessionId = id /\ Head(logs).activityType \in types
          THEN 1 ELSE 0) + CountRows(Tail(logs), id, types)

\* C1: a session whose stored status has become disconnected or expired
\* never afterwards has a stored status of waiting, connecting or connected.
C1_TerminalStatusIsFinal ==
    [][\A sid \in DOMAIN sessions :
          sessions[sid].status \in Terminal => sessions'[sid].status \in Terminal]_vars

\* C2: every change of a session's stored status is one of the lifecycle
\* edges waiting -> connecting, waiting -> connected, connecting -> connected,
\* connected -> disconnected, or non-terminal -> expired.
LifecycleEdges ==
    {<<"waiting", "connecting">>, <<"waiting", "connected">>,
     <<"connecting", "connected">>, <<"connected", "disconnected">>}
    \cup {<<st, "expired">> : st \in Statuses \ Terminal}

C2_OnlyLifecycleEdges ==
    [][\A sid \in DOMAIN sessions :
          sessions'[sid].status # sessions[sid].status =>
              <<sessions[sid].status, sessions'[sid].status>> \in LifecycleEdges]_vars

\* C3: a join on a session whose expiresAt is earlier than the current time
\* fails with Expired whatever the stored status and whatever the password,
\* and writes nothing to the session, the log or the notification flags.
C3_JoinPastExpiryFails ==
    [][(Served("signaling.join") /\ Named /\ PastExpiry(Row, now)) =>
          (last'.outcome = Expired /\ StoreUnchanged)]_vars

\* C3 witness: a join with the correct password was refused as expired on a
\* session past expiresAt whose stored status is still connected.
C3_Witness ==
    /\ last.op = "signaling.join"
    /\ last.outcome = Expired
    /\ last.in.sid \in DOMAIN sessions
    /\ sessions[last.in.sid].status = "connected"
    /\ PastExpiry(sessions[last.in.sid], now)
    /\ verifyPassword(last.in.password, sessions[last.in.sid].passwordHash)

\* C4: every state-changing operation invoked on an expired session (stored
\* status expired or expiresAt in the past) fails with Expired and leaves the
\* session record unchanged.
StateChangingOps ==
    {"signaling.sendOffer", "signaling.sendAnswer", "signaling.sendIceCandidate",
     "signaling.sendOfferFromClient", "signaling.sendAnswerFromHost",
     "signaling.updateStatus", "signaling.clientDisconnect", "session.end"}

C4_ExpiredSessionRejectsWrites ==
    [][(requests' = requests + 1 /\ last'.op \in StateChangingOps
        /\ Named /\ IsExpired(Row, now)) =>
          (last'.outcome = Expired /\ sessions' = sessions)]_vars

\* C5: a read-only status poll (getSignalingData, getMeetingStatus) of a
\* session whose expiresAt has passed reports status expired, whatever the
\* stored status.
C5_PollReportsExpired ==
    [][(requests' = requests + 1
        /\ last'.op \in {"signaling.getSignalingData", "calendar.getMeetingStatus"}
        /\ last'.outcome = OK /\ Named /\ PastExpiry(Row, now)) =>
          last'.result.status = "expired"]_vars

\* C6: a join with a password whose hash differs from passwordHash, on an
\* existing unexpired non-disconnected session, fails with InvalidPassword
\* and leaves status, clientName, clientIp, the log and startNotificationSent
\* as they were, and sends no notification.
C6_WrongPasswordJoinFails ==
    [][(Served("signaling.join") /\ Named /\ ~IsExpired(Row, now)
        /\ Row.status # "disconnected"
        /\ hashPassword(last'.in.password) # Row.passwordHash) =>
          (last'.outcome = InvalidPassword /\ StoreUnchanged)]_vars

\* C6 witness: a join with a wrong password was refused on a waiting session
\* that is not past expiresAt.
C6_Witness ==
    /\ last.op = "signaling.join"
    /\ last.outcome = InvalidPassword
    /\ last.in.sid \in DOMAIN sessions
    /\ sessions[last.in.sid].status = "waiting"
    /\ ~PastExpiry(sessions[last.in.sid], now)
    /\ last.in.password \notin GeneratedPasswords

\* C7: a join with the correct password on a waiting session not past
\* expiresAt succeeds, records the clientName it was given, appends exactly
\* one client_joined row and leaves the stored status unchanged, so that the
\* same join made again is accepted too.
C7_JoinAcceptedAndRepeatable ==
    [][(Served("signaling.join") /\ Named /\ Row.status = "waiting"
        /\ ~PastExpiry(Row, now)
        /\ hashPassword(last'.in.password) = Row.passwordHash) =>
          LET sid == last'.in.sid IN
          /\ last'.outcome = OK
          /\ last'.in.clientName # UNDEFINED =>
                sessions'[sid].clientName = last'.in.clientName
          /\ sessionLogs' = Append(sessionLogs,
                [sessionId |-> Row.id, activityType |-> "client_joined",
                 details |-> JSONstringifyDetails(JoinDetails(last'.in))])
          /\ sessions'[sid].status = Row.status
          /\ Join(<<sessions'[sid]>>, last'.in, now').outcome = OK]_vars

\* C7 witness: two joins with the correct password were accepted one after
\* the other on a session that is still waiting and carries the client name.
C7_Witness ==
    /\ last.op = "signaling.join"
    /\ last.outcome = OK
    /\ last.in.sid \in DOMAIN sessions
    /\ sessions[last.in.sid].status = "waiting"
    /\ sessions[last.in.sid].clientName \in ClientNames
    /\ CountRows(sessionLogs, sessions[last.in.sid].id, {"client_joined"}) = 2

\* C8: for one session the start notification is dispatched exactly once in
\* total, also when two joins with the correct password run concurrently.
C8_StartNotifiedOnce ==
    \A sid \in DOMAIN sessions :
        notifications[sid].start =
            (IF CountRows(sessionLogs, sessions[sid].id, {"client_joined"}) > 0
                \/ sessions[sid].startNotificationSent
             THEN 1 ELSE 0)
        \/ \E p \in Procs : procs[p].pc = "running"

TerminatingRows == {"session_ended", "client_disconnected", "disconnected"}

\* C9: when terminating calls on one session (session.end by the host,
\* clientDisconnect, updateStatus to disconnected) are served one after
\* another, in any order and any number of times, exactly one end
\* notification is dispatched in total and endNotificationSent is written
\* true exactly once.
C9_EndNotifiedOnceSequentially ==
    \A sid \in DOMAIN sessions :
        LET n == CountRows(sessionLogs, sessions[sid].id, TerminatingRows)
            once == IF n > 0 THEN 1 ELSE 0
        IN /\ notifications[sid].end = once
           /\ markWrites[sid].end = once
           /\ sessions[sid].endNotificationSent = (n > 0)

\* C9 witness: three terminating calls of different kinds were served on one
\* session and one end notification went out.
C9_Witness ==
    \E sid \in DOMAIN sessions :
        /\ \A type \in TerminatingRows :
              CountRows(sessionLogs, sessions[sid].id, {type}) = 1
        /\ notifications[sid].end = 1

\* C10: at most one end notification is dispatched for a session even when
\* terminating calls run concurrently.
C10_AtMostOneEndNotification ==
    \A sid \in DOMAIN sessions : notifications[sid].end <= 1

\* C11: getSignalingData with role client returns null for clientAnswer and
\* clientIceCandidates, and with role host returns null for hostOffer and
\* hostIceCandidates, whatever the store holds in those fields.
C11_RoleMasking ==
    [][(Served("signaling.getSignalingData") /\ last'.outcome = OK) =>
          /\ last'.in.role = "client" =>
                /\ last'.result.clientAnswer = NULL
                /\ last'.result.clientIceCandidates = NullText
          /\ last'.in.role = "host" =>
                /\ last'.result.hostOffer = NULL
                /\ last'.result.hostIceCandidates = NullText]_vars

\* C11 witness: a client-role poll was answered while the store held a
\* client answer and client candidates, and the result carried neither.
C11_Witness ==
    /\ last.op = "signaling.getSignalingData"
    /\ last.outcome = OK
    /\ last.in.role = "client"
    /\ last.in.sid \in DOMAIN sessions
    /\ sessions[last.in.sid].clientAnswer \in Answers
    /\ sessions[last.in.sid].clientIceCandidates # NullText
    /\ last.result.clientAnswer = NULL

\* C12: session.get, session.end, sendOffer, getOffer and sendAnswerFromHost
\* fail when the caller's user id differs from hostUserId, for every session
\* status, and then leave the session, the log and the notification flags
\* unchanged.
OwnerOnlyOps ==
    {"session.get", "session.end", "signaling.sendOffer", "signaling.getOffer",
     "signaling.sendAnswerFromHost"}

C12_OwnershipEnforced ==
    [][(requests' = requests + 1 /\ last'.op \in OwnerOnlyOps /\ Named
        /\ last'.in.user # Row.hostUserId) =>
          (last'.outcome \in {Unauthorized, NotFoundOrUnauthorized}
           /\ StoreUnchanged)]_vars

\* C12 witness: a user who is not the host was refused a sendOffer on a
\* connected session.
C12_Witness ==
    /\ last.op = "signaling.sendOffer"
    /\ last.outcome = NotFoundOrUnauthorized
    /\ last.in.sid \in DOMAIN sessions
    /\ last.in.user # sessions[last.in.sid].hostUserId
    /\ sessions[last.in.sid].status = "connected"
    /\ sessions[last.in.sid].hostOffer = NULL

\* The candidates a stored text holds (no candidates when the column is NULL).
StoredList(text) == IF text = NullText THEN <<>> ELSE JSONparse(text)

IsPrefix(a, b) == Len(a) <= Len(b) /\ SubSeq(b, 1, Len(a)) = a

Contains(list, x) == \E i \in 1..Len(list) : list[i] = x

\* C13: a sendIceCandidate from the client changes clientIceCandidates only
\* if it carries a password that verifies against passwordHash (no password
\* or a wrong one appends nothing); one from the host changes
\* hostIceCandidates only if the caller is the owning host.
C13_IceRequiresCredential ==
    [][(Served("signaling.sendIceCandidate") /\ Named) =>
          LET sid == last'.in.sid IN
          /\ (last'.in.from = "client"
               /\ ~verifyPassword(last'.in.password, Row.passwordHash)) =>
                 sessions'[sid].clientIceCandidates = Row.clientIceCandidates
          /\ (last'.in.from = "host" /\ last'.in.user # Row.hostUserId) =>
                 sessions'[sid].hostIceCandidates = Row.hostIceCandidates]_vars

\* C14: both candidate lists are empty at creation, every operation leaves
\* the list it found as a prefix of the list it leaves, and each successful
\* sendIceCandidate adds exactly its candidate at the end of its side's list.
C14_IceListsAppendOnly ==
    [][/\ \A sid \in DOMAIN sessions' \ DOMAIN sessions :
             /\ StoredList(sessions'[sid].hostIceCandidates) = <<>>
             /\ StoredList(sessions'[sid].clientIceCandidates) = <<>>
       /\ \A sid \in DOMAIN sessions :
             /\ IsPrefix(StoredList(sessions[sid].hostIceCandidates),
                         StoredList(sessions'[sid].hostIceCandidates))
             /\ IsPrefix(StoredList(sessions[sid].clientIceCandidates),
                         StoredList(sessions'[sid].clientIceCandidates))
       /\ (Served("signaling.sendIceCandidate") /\ last'.outcome = OK /\ Named) =>
             LET f == IF last'.in.from = "host" THEN "hostIceCandidates"
                                                ELSE "clientIceCandidates"
             IN StoredList(sessions'[last'.in.sid][f]) =
                    Append(StoredList(Row[f]), last'.in.candidate)]_vars

\* C15: when two sendIceCandidate calls from the same side of one session
\* run concurrently and both succeed, the stored list of that side contains
\* both candidates.  (Request p makes its write after the other request has
\* returned with its candidate stored.)
C15_ConcurrentCandidatesBothStored ==
    [][\A p \in Procs :
          LET mine == procs[p].in
              f == IF mine.from = "host" THEN "hostIceCandidates"
                                         ELSE "clientIceCandidates"
          IN (/\ procs[p].pc = "running"
              /\ procs[p].op = "signaling.sendIceCandidate"
              /\ procs'[p].pc = "idle"
              /\ last.op = "signaling.sendIceCandidate"
              /\ last.outcome = OK
              /\ last.in.sid = mine.sid
              /\ last.in.from = mine.from
              /\ last.in.candidate # mine.candidate
              /\ Contains(StoredList(sessions[mine.sid][f]), last.in.candidate)) =>
                 /\ Contains(StoredList(sessions'[mine.sid][f]), last.in.candidate)
                 /\ Contains(StoredList(sessions'[mine.sid][f]), mine.candidate)]_vars

\* C16: an answer is never stored before the matching offer: in every state
\* clientAnswer non-null implies hostOffer non-null, and hostAnswer non-null
\* implies clientOffer non-null.
C16_AnswerNeedsOffer ==
    \A sid \in DOMAIN sessions :
        /\ sessions[sid].clientAnswer # NULL => sessions[sid].hostOffer # NULL
        /\ sessions[sid].hostAnswer # NullText => sessions[sid].clientOffer # NullText

\* C17: Flow A.  The password create returns verifies against the stored
\* passwordHash, then and later; a host sendOffer(o) stores o; a join with
\* that password on the waiting, unexpired session succeeds and returns the
\* stored hostOffer; a sendAnswer with that password stores the answer, sets
\* status connected and appends one host_connected row.
C17_FlowA ==
    [][/\ \A sid \in DOMAIN sessions' \ DOMAIN sessions :
             /\ last'.op = "session.create"
             /\ verifyPassword(last'.result.password, sessions'[sid].passwordHash)
       /\ \A sid \in DOMAIN sessions :
             sessions'[sid].passwordHash = sessions[sid].passwordHash
       /\ (Served("signaling.sendOffer") /\ last'.outcome = OK) =>
             sessions'[last'.in.sid].hostOffer = last'.in.offer
       /\ (Served("signaling.join") /\ Named /\ Row.status = "waiting"
           /\ ~PastExpiry(Row, now)
           /\ verifyPassword(last'.in.password, Row.passwordHash)) =>
             (last'.outcome = OK /\ last'.result.hostOffer = Row.hostOffer)
       /\ (Served("signaling.sendAnswer") /\ Named
           /\ verifyPassword(last'.in.password, Row.passwordHash)) =>
             /\ last'.outcome = OK
             /\ sessions'[last'.in.sid].clientAnswer = last'.in.answer
             /\ sessions'[last'.in.sid].status = "connected"
             /\ sessionLogs' = Append(sessionLogs,
                   [sessionId |-> Row.id, activityType |-> "host_connected",
                    details |-> JSONstringifyDetails(<<>>)])]_vars

\* C17 witness: create, sendOffer, join and sendAnswer were served in that
\* order and the session is connected with the offer and the answer stored.
C17_Witness ==
    /\ last.op = "signaling.sendAnswer"
    /\ last.outcome = OK
    /\ last.in.sid \in DOMAIN sessions
    /\ LET s == sessions[last.in.sid] IN
          /\ s.status = "connected"
          /\ s.hostOffer \in Offers
          /\ s.clientAnswer = last.in.answer
          /\ s.startNotificationSent
          /\ ActivityTypes(sessionLogs) =
                <<"session_created", "client_joined", "host_connected">>

\* C18: whenever an operation returns a non-success outcome (not found,
\* unauthorized, invalid password, expired, ended, or a failure of the
\* notifier), the session record, the log and the notification flags are the
\* same as before the call.
C18_FailureChangesNothing ==
    [][(requests' = requests + 1 /\ last'.outcome # OK) => StoreUnchanged]_vars

\* C19: repeating a successful write operation with the same arguments
\* produces no duplicate side effect: the signaling payload fields, the
\* candidate lists, the log and the number of notifications dispatched are
\* the same after the second call as after the first.
RetriedOps ==
    {"signaling.join", "signaling.sendOffer", "signaling.sendAnswer",
     "signaling.sendIceCandidate", "signaling.sendOfferFromClient",
     "signaling.sendAnswerFromHost", "signaling.clientDisconnect", "session.end"}

PayloadFields ==
    {"hostOffer", "clientAnswer", "clientOffer", "hostAnswer",
     "hostIceCandidates", "clientIceCandidates"}

C19_RetryHasNoDuplicateEffect ==
    [][(/\ requests' = requests + 1
        /\ last'.op \in RetriedOps /\ last'.outcome = OK
        /\ last.op = last'.op /\ last.outcome = OK /\ last.in = last'.in) =>
          /\ \A f \in PayloadFields :
                sessions'[last'.in.sid][f] = sessions[last'.in.sid][f]
          /\ sessionLogs' = sessionLogs
          /\ notifications' = notifications]_vars

\* C20: sessionId, passwordHash and hostUserId of a session hold the values
\* given at creation in every later state: no operation writes them.
C20_IdentityFieldsFixed ==
    [][/\ \A sid \in DOMAIN sessions' \ DOMAIN sessions :
             /\ sessions'[sid].sessionId = sid
             /\ last'.result.sessionId = sid
             /\ sessions'[sid].passwordHash = hashPassword(last'.result.password)
             /\ sessions'[sid].hostUserId = last'.in.user
       /\ \A sid \in DOMAIN sessions :
             /\ sid \in DOMAIN sessions'
             /\ sessions'[sid].sessionId = sessions[sid].sessionId
             /\ sessions'[sid].passwordHash = sessions[sid].passwordHash
             /\ sessions'[sid].hostUserId = sessions[sid].hostUserId]_vars

\* C20 witness: a session that was joined, given a candidate and ended (both
\* notification flags marked) still carries its id, hash and host.
C20_Witness ==
    \E sid \in DOMAIN sessions :
        /\ sessions[sid].startNotificationSent
        /\ sessions[sid].endNotificationSent
        /\ sessions[sid].status = "disconnected"
        /\ sessions[sid].clientIceCandidates # NullText
        /\ sessions[sid].sessionId = sid
        /\ \E pw \in GeneratedPasswords :
              sessions[sid].passwordHash = hashPassword(pw)
        /\ sessions[sid].hostUserId \in Hosts

\* The strings a record shows: its string columns, the tokens of its JSON
\* text columns and of its candidate lists.  A digest shows nothing of its
\* input, so passwordHash contributes no string.
StringColumns ==
    {"sessionId", "status", "clientName", "clientIp", "hostOffer", "clientAnswer",
     "calendarEventId", "calendarSource", "offer", "answer"}
TextColumns ==
    {"clientOffer", "hostAnswer", "hostIceCandidates", "clientIceCandidates"}
Range(seq) == {seq[i] : i \in 1..Len(seq)}
StringsOfRecord(r) ==
    {r[f] : f \in DOMAIN r \cap StringColumns}
    \cup UNION {Range(r[f]) : f \in DOMAIN r \cap TextColumns}
    \cup (IF "iceCandidates" \in DOMAIN r
          THEN UNION {Range(x) : x \in Range(r.iceCandidates)} ELSE {})
StringsOfLogRow(r) == {r.activityType} \cup Range(r.details)
StringsOf(result) ==
    StringsOfRecord(result)
    \cup (IF "rows" \in DOMAIN result
          THEN UNION {StringsOfRecord(x) : x \in Range(result.rows)} ELSE {})
    \cup (IF "logs" \in DOMAIN result
          THEN UNION {StringsOfLogRow(x) : x \in Range(result.logs)} ELSE {})

CreateOps == {"session.create", "calendar.createMeeting"}

\* C21: the plaintext password appears only in the result of the create
\* call: the session record holds its digest and no column or log row holds
\* the plaintext, and no result of a later operation contains it.
C21_PasswordOnlyInCreateResult ==
    /\ \A sid \in DOMAIN sessions :
          /\ sessions[sid].passwordHash \in {hashPassword(pw) : pw \in GeneratedPasswords}
          /\ StringsOfRecord(sessions[sid]) \cap GeneratedPasswords = {}
    /\ \A i \in 1..Len(sessionLogs) :
          StringsOfLogRow(sessionLogs[i]) \cap GeneratedPasswords = {}
    /\ last.op \notin CreateOps => StringsOf(last.result) \cap GeneratedPasswords = {}

\* C21 witness: the host reads the whole record of a calendar session after
\* a client joined it with the password.
C21_Witness ==
    /\ last.op = "session.get"
    /\ last.outcome = OK
    /\ last.result.calendarEventId \in CalendarEventIds
    /\ last.result.clientIp # NULL
    /\ last.result.passwordHash \in {hashPassword(pw) : pw \in GeneratedPasswords}
    /\ Len(sessionLogs) = 2
    /\ sessionLogs[2].activityType = "client_joined"

\* The logging calls of a plan.
LogCalls(calls) == {i \in 1..Len(calls) : calls[i].call = "logSessionActivity"}

\* C22: the session log only grows: every step leaves the existing rows in
\* place and unmodified, and a request that makes a logging call adds
\* exactly one row, of the type and details it logs.
C22_LogOnlyGrows ==
    [][/\ IsPrefix(sessionLogs, sessionLogs')
       /\ Len(sessionLogs') <= Len(sessionLogs) + 1
       /\ (requests' = requests + 1 /\ last'.op # "cleanupExpiredSessions"
           /\ last'.in.sid \in DOMAIN sessions) =>
             LET calls == Plan(last'.op, <<Row>>, last'.in, now).calls IN
             /\ LogCalls(calls) = {} => sessionLogs' = sessionLogs
             /\ \A i \in LogCalls(calls) :
                   sessionLogs' = logSessionActivity(sessionLogs, calls[i].id,
                                                     calls[i].type, calls[i].details)
       /\ DOMAIN sessions' # DOMAIN sessions =>
             /\ Len(sessionLogs') = Len(sessionLogs) + 1
             /\ sessionLogs'[Len(sessionLogs')].activityType = "session_created"]_vars

\* C22 witness: a session joined twice and then ended has its four rows in
\* the order they were logged.
C22_Witness ==
    /\ last.op = "session.end"
    /\ last.outcome = OK
    /\ ActivityTypes(sessionLogs) =
          <<"session_created", "client_joined", "client_joined", "session_ended">>

\* C23: every successful call that changes the state of a session (join,
\* sendOffer, sendAnswer, sendIceCandidate, sendOfferFromClient,
\* sendAnswerFromHost, updateStatus, clientDisconnect, session.end, the expiry
\* sweep, create) appends a log row for that session.
LoggedOps ==
    {"signaling.join", "signaling.sendOffer", "signaling.sendAnswer",
     "signaling.sendIceCandidate", "signaling.sendOfferFromClient",
     "signaling.sendAnswerFromHost", "signaling.updateStatus",
     "signaling.clientDisconnect", "session.end"}

C23_StateChangeIsLogged ==
    [][/\ (requests' = requests + 1 /\ last'.op \in LoggedOps /\ last'.outcome = OK) =>
             /\ Len(sessionLogs') = Len(sessionLogs) + 1
             /\ sessionLogs'[Len(sessionLogs')].sessionId = Row.id
       /\ \A sid \in DOMAIN sessions :
             (Served("cleanupExpiredSessions") /\ sessions'[sid] # sessions[sid]) =>
                /\ Len(sessionLogs') = Len(sessionLogs) + 1
                /\ sessionLogs'[Len(sessionLogs')].sessionId = sessions[sid].id
       /\ \A sid \in DOMAIN sessions' \ DOMAIN sessions :
             /\ Len(sessionLogs') = Len(sessionLogs) + 1
             /\ sessionLogs'[Len(sessionLogs')].sessionId = sessions'[sid].id]_vars

\* A step of calendar.createMeeting (creations are not counted as requests).
CreateMeetingStep == last' # last /\ last'.op = "calendar.createMeeting"

\* C24: createMeeting with a key other than the derived calendar key fails
\* with InvalidKey and writes nothing; with the valid key and a hostEmail that
\* matches no user it fails with HostNotFound and creates no session;
\* getMeetingStatus with a wrong key fails with InvalidKey whether or not the
\* session exists.
C24_CalendarKeyAndHostChecked ==
    [][/\ (CreateMeetingStep /\ last'.in.apiKey # getCalendarApiKey) =>
             (last'.outcome = InvalidKey /\ StoreUnchanged)
       /\ (CreateMeetingStep /\ last'.in.apiKey = getCalendarApiKey
           /\ last'.in.hostEmail \notin DOMAIN usersByEmail) =>
             (last'.outcome = HostNotFound /\ StoreUnchanged)
       /\ (CreateMeetingStep /\ last'.outcome = OK) =>
             /\ last'.in.apiKey = getCalendarApiKey
             /\ last'.in.hostEmail \in DOMAIN usersByEmail
             /\ sessions'[last'.result.sessionId].hostUserId
                   = usersByEmail[last'.in.hostEmail]
       /\ (Served("calendar.getMeetingStatus")
           /\ last'.in.apiKey # getCalendarApiKey) =>
             /\ last'.outcome = InvalidKey
             /\ StoreUnchanged
             /\ \A snap \in {<<>>} \cup {<<sessions[x]>> : x \in DOMAIN sessions} :
                   Plan(last'.op, snap, last'.in, now).outcome = InvalidKey]_vars

\* C24 witness: with a session stored, getMeetingStatus was refused for an
\* unknown id and a wrong key.
C24_Witness ==
    /\ last.op = "calendar.getMeetingStatus"
    /\ last.outcome = InvalidKey
    /\ last.in.sid \notin DOMAIN sessions
    /\ DOMAIN sessions # {}

\* The columns getMeetingStatus must not expose.
HiddenFromCalendar == PayloadFields \cup {"passwordHash"}

\* C25: getMeetingStatus changes nothing in the store, and its result is the
\* status projection of the session: it has none of the six signaling payload
\* fields nor passwordHash, whatever the state of the session.
C25_MeetingStatusReadOnlyProjection ==
    [][Served("calendar.getMeetingStatus") =>
          /\ StoreUnchanged
          /\ last'.outcome = OK =>
                /\ DOMAIN last'.result \cap HiddenFromCalendar = {}
                /\ \A f \in DOMAIN last'.result : last'.result[f] = Row[f]]_vars

\* C25 witness: the status of a connected session that holds an offer and an
\* answer was read through the calendar bridge.
C25_Witness ==
    /\ last.op = "calendar.getMeetingStatus"
    /\ last.outcome = OK
    /\ last.result.status = "connected"
    /\ sessions[last.in.sid].hostOffer # NULL
    /\ sessions[last.in.sid].clientAnswer # NULL

\* A step in which the interval callback of the viewer polled.
PollStep(page) ==
    /\ pages[page].pollingRef
    /\ requests' = requests + 1
    /\ last'.op = "signaling.getSignalingData"
    /\ last'.in.role = page

\* A step in which the interval callback of the client page resumed with
\* the poll response r.
Delivered(r) ==
    \E i \in 1..Len(pages.client.inflight) :
        /\ pages.client.inflight[i] = r
        /\ pages'.client.inflight = Without(pages.client.inflight, i)

\* C26: a polling page stops polling once it observes the field it waits for
\* (hostOffer for the client page, clientAnswer for the viewer) or a terminal
\* status, disconnected or expired.
C26_PollingStopsOnFieldOrTerminal ==
    [][/\ \A i \in 1..Len(pages.client.inflight) :
             LET r == pages.client.inflight[i] IN
             (Delivered(r) /\ (Truthy(r.hostOffer) \/ r.status \in Terminal)) =>
                ~pages'.client.pollingRef
       /\ (PollStep("host") /\ last'.outcome = OK
           /\ (Truthy(last'.result.clientAnswer) \/ last'.result.status \in Terminal)) =>
             ~pages'.host.pollingRef]_vars

\* A served request of a handler that names a session no row has.
NamesNoSession ==
    /\ requests' = requests + 1
    /\ last'.op # "cleanupExpiredSessions"
    /\ last'.in.sid \notin DOMAIN sessions

NotFoundOutcomes == {NotFound, NotFoundOrUnauthorized}

\* C27: every operation called with a sessionId that names no stored session
\* fails with a not-found outcome and creates or changes no session, log row
\* or notification.
C27_UnknownIdNotFound ==
    [][NamesNoSession =>
          (last'.outcome \in NotFoundOutcomes /\ StoreUnchanged)]_vars

\* C27 as the handlers have it: the same, for a request that carries the
\* calendar key where the handler asks for one; getMeetingStatus with a wrong
\* key fails with InvalidKey, still without any change.
C27_UnknownIdNotFoundGivenKey ==
    [][NamesNoSession =>
          /\ StoreUnchanged
          /\ last'.outcome # OK
          /\ (last'.op = "calendar.getMeetingStatus"
              /\ last'.in.apiKey # getCalendarApiKey) => last'.outcome = InvalidKey
          /\ (last'.op = "calendar.getMeetingStatus"
              => last'.in.apiKey = getCalendarApiKey) =>
                last'.outcome \in NotFoundOutcomes]_vars

\* C27 witness: with a session stored, a join that names another id was
\* refused as not found.
C27_Witness ==
    /\ last.op = "signaling.join"
    /\ last.in.sid \in UnknownIds
    /\ last.outcome = NotFound
    /\ DOMAIN sessions # {}
    /\ Len(sessionLogs) = 1

\* A step of session.create or calendar.createMeeting (creations are not
\* counted as requests).
CreateStep == last' # last /\ last'.op \in CreateOps

\* C28: a session produced by create has status waiting, the digest of the
\* returned password, expiresAt equal to the creation time plus
\* expiresInMinutes, the six signaling payload fields null, both
\* notification flags false, connectedAt and endedAt null, and exactly one
\* log row, of type session_created; a create that fails creates nothing.
C28_CreatedSessionIsFresh ==
    [][/\ \A sid \in DOMAIN sessions' \ DOMAIN sessions :
             LET s == sessions'[sid] IN
             /\ CreateStep /\ last'.outcome = OK
             /\ last'.result.sessionId = sid
             /\ s.status = "waiting"
             /\ s.passwordHash = hashPassword(last'.result.password)
             /\ s.createdAt = now
             /\ s.expiresAt - now \in ExpiresIn
             /\ last'.result.expiresAt = s.expiresAt
             /\ s.hostOffer = NULL /\ s.clientAnswer = NULL
             /\ s.clientOffer = NullText /\ s.hostAnswer = NullText
             /\ s.hostIceCandidates = NullText /\ s.clientIceCandidates = NullText
             /\ ~s.startNotificationSent /\ ~s.endNotificationSent
             /\ s.connectedAt = NoTime /\ s.endedAt = NoTime
             /\ sessionLogs' = Append(sessionLogs, sessionLogs'[Len(sessionLogs')])
             /\ sessionLogs'[Len(sessionLogs')].activityType = "session_created"
             /\ CountRows(sessionLogs', s.id, Range(ActivityTypes(sessionLogs'))) = 1
       /\ (CreateStep /\ last'.outcome = OK) => DOMAIN sessions' # DOMAIN sessions
       /\ (CreateStep /\ last'.outcome # OK) => StoreUnchanged]_vars

\* C28 witness: a meeting was created through the calendar bridge and its
\* session waits with nothing but its creation logged.
C28_Witness ==
    /\ last.op = "calendar.createMeeting"
    /\ last.outcome = OK
    /\ sessions[last.result.sessionId].status = "waiting"
    /\ sessions[last.result.sessionId].calendarSource \in CalendarSources
    /\ ActivityTypes(sessionLogs) = <<"session_created">>

\* The columns updateStatus may write for a given status.
StatusColumns(status) ==
    {"status"} \cup (IF status = "connected" THEN {"connectedAt"}
                     ELSE IF status \in Terminal THEN {"endedAt"} ELSE {})

\* C29: updateStatus sets the stored status to the given value, sets
\* connectedAt when the new status is connected and endedAt when it is
\* disconnected or expired, and leaves every other field unchanged; the same
\* call made a second time changes nothing but the refreshed timestamp.
C29_UpdateStatusSetsStatusOnly ==
    [][(Served("signaling.updateStatus") /\ Named) =>
          LET sid == last'.in.sid
              st == last'.in.status
          IN /\ last'.outcome = OK
             /\ sessions'[sid].status = st
             /\ st = "connected" => sessions'[sid].connectedAt = now
             /\ st \in Terminal => sessions'[sid].endedAt = now
             /\ \A f \in DOMAIN Row \ StatusColumns(st) : sessions'[sid][f] = Row[f]
             /\ (last.op = last'.op /\ last.in = last'.in /\ last.outcome = OK) =>
                   /\ sessions'[sid].status = Row.status
                   /\ sessionLogs' = sessionLogs
                   /\ notifications' = notifications]_vars

\* C30: a successful sendOffer by the owning host sets hostOffer to the given
\* offer and leaves status, every other field of the session, the log and
\* the notification flags and counts unchanged.
C30_SendOfferWritesOfferOnly ==
    [][(Served("signaling.sendOffer") /\ Named
        /\ Row.hostUserId = last'.in.user) =>
          LET sid == last'.in.sid IN
          /\ last'.outcome = OK
          /\ sessions'[sid].hostOffer = last'.in.offer
          /\ \A f \in DOMAIN Row \ {"hostOffer"} : sessions'[sid][f] = Row[f]
          /\ DOMAIN sessions' = DOMAIN sessions
          /\ UNCHANGED <<sessionLogs, notifications, markWrites>>]_vars

\* C30 witness: the host sent an offer to a session that a client had
\* already joined and answered; it is still connected and holds both.
C30_Witness ==
    /\ last.op = "signaling.sendOffer"
    /\ last.outcome = OK
    /\ LET s == sessions[last.in.sid] IN
          /\ s.hostOffer = last.in.offer
          /\ s.status = "connected"
          /\ s.clientAnswer # NULL
          /\ s.startNotificationSent
          /\ Len(sessionLogs) = 3

\* The list getOffer and getAnswer return for candidates sent with an offer
\* or answer: the array that was given, the empty array when it was omitted.
GivenIce(optional) == <<IF optional = <<>> THEN <<>> ELSE optional[1]>>

\* C31: sendOfferFromClient on a stored session leaves the status connecting;
\* a getOffer by the owning host that follows it returns that offer, those
\* candidates and the stored clientName; while no client offer is stored
\* getOffer returns null for offer and candidates, and a stored client offer
\* is never removed.
C31_FlowBOffer ==
    [][/\ (Served("signaling.sendOfferFromClient") /\ Named) =>
             /\ last'.outcome = OK
             /\ sessions'[last'.in.sid].status = "connecting"
       /\ (Served("signaling.getOffer") /\ Named /\ Row.hostUserId = last'.in.user) =>
             /\ last'.outcome = OK
             /\ last'.result.clientName = Row.clientName
             /\ (last.op = "signaling.sendOfferFromClient" /\ last.outcome = OK
                 /\ last.in.sid = last'.in.sid) =>
                   /\ last'.result.offer = last.in.offer
                   /\ last'.result.iceCandidates = GivenIce(last.in.iceCandidates)
             /\ Row.clientOffer = NullText =>
                   /\ last'.result.offer = NULL
                   /\ last'.result.iceCandidates = <<>>
       /\ \A sid \in DOMAIN sessions :
             sessions[sid].clientOffer # NullText =>
                sessions'[sid].clientOffer # NullText]_vars

\* C31 witness: a client that had joined sent its offer with one candidate
\* and the host read them back with the client's name.
C31_Witness ==
    /\ last.op = "signaling.getOffer"
    /\ last.outcome = OK
    /\ last.result.offer \in Offers
    /\ last.result.iceCandidates = << <<"cand1">> >>
    /\ last.result.clientName \in ClientNames
    /\ sessions[last.in.sid].status = "connecting"

\* What a reader is given for a stored candidate column: null for SQL NULL,
\* the parsed list otherwise.
StoredIce(text) == IF text = NullText THEN <<>> ELSE <<JSONparse(text)>>

\* C32: sendAnswerFromHost by the owning host leaves the status connected; a
\* getAnswer that follows it returns that answer and the host's candidates;
\* in every state getAnswer returns the stored hostIceCandidates when there
\* are any, also when they were stored before any host answer.
C32_FlowBAnswer ==
    [][/\ (Served("signaling.sendAnswerFromHost") /\ Named
           /\ Row.hostUserId = last'.in.user) =>
             /\ last'.outcome = OK
             /\ sessions'[last'.in.sid].status = "connected"
       /\ (Served("signaling.getAnswer") /\ Named) =>
             /\ last'.outcome = OK
             /\ (last.op = "signaling.sendAnswerFromHost" /\ last.outcome = OK
                 /\ last.in.sid = last'.in.sid) =>
                   /\ last'.result.answer = last.in.answer
                   /\ last'.result.iceCandidates = GivenIce(last.in.iceCandidates)
             /\ Row.hostIceCandidates # NullText =>
                   last'.result.iceCandidates = StoredIce(Row.hostIceCandidates)
             /\ Row.hostAnswer = NullText => last'.result.answer = NULL]_vars

\* C33: a join on a session that is not past expiresAt and whose stored
\* status is disconnected fails with Ended whatever the password and changes
\* nothing; a session that was disconnected at some time (its log holds a
\* terminating row) accepts no join afterwards.
C33_NoJoinAfterDisconnect ==
    [][(Served("signaling.join") /\ Named) =>
          /\ (Row.status = "disconnected" /\ ~PastExpiry(Row, now)) =>
                (last'.outcome = Ended /\ StoreUnchanged)
          /\ CountRows(sessionLogs, Row.id, TerminatingRows) > 0 =>
                last'.outcome # OK]_vars

\* C34: in every state a session whose stored status is connected has a
\* connectedAt, and a session whose stored status is disconnected or expired
\* has an endedAt.
C34_StatusHasItsTimestamp ==
    \A sid \in DOMAIN sessions :
        /\ sessions[sid].status = "connected" => sessions[sid].connectedAt # NoTime
        /\ sessions[sid].status \in Terminal => sessions[sid].endedAt # NoTime

\* C34 witness: a session that was connected and then disconnected at a later
\* time holds both timestamps.
C34_Witness ==
    \E sid \in DOMAIN sessions :
        /\ sessions[sid].status = "disconnected"
        /\ sessions[sid].connectedAt # NoTime
        /\ sessions[sid].endedAt > sessions[sid].connectedAt

\* C35: startNotificationSent and endNotificationSent never go from true back
\* to false, and in every state a step leads to (no session is stored at
\* the start) a flag that is true has at least one notification of its kind
\* dispatched for the session.
C35_NotificationFlagsMonotone ==
    [][/\ \A sid \in DOMAIN sessions' :
            /\ sessions'[sid].startNotificationSent => notifications'[sid].start > 0
            /\ sessions'[sid].endNotificationSent => notifications'[sid].end > 0
       /\ \A sid \in DOMAIN sessions :
            /\ sessions[sid].startNotificationSent => sessions'[sid].startNotificationSent
            /\ sessions[sid].endNotificationSent => sessions'[sid].endNotificationSent]_vars

\* C35 witness: a session was joined and ended, both flags are set and each
\* notification went out once, and a request was served after that.
C35_Witness ==
    /\ last.op \notin {"session.end", "signaling.join"}
    /\ last.in.sid \in DOMAIN sessions
    /\ LET sid == last.in.sid IN
          /\ sessions[sid].startNotificationSent
          /\ sessions[sid].endNotificationSent
          /\ notifications[sid] = [start |-> 1, end |-> 1]

Writes(op, in) ==
    CASE op = "signaling.sendOffer" -> {"hostOffer"}
      [] op = "signaling.join" -> {"clientName", "clientIp", "startNotificationSent"}
      [] op = "signaling.sendAnswer" -> {"clientAnswer", "status", "connectedAt"}
      [] op = "signaling.sendIceCandidate" ->
            IF in.from = "host" THEN {"hostIceCandidates"} ELSE {"clientIceCandidates"}
      [] op = "signaling.sendOfferFromClient" ->
            {"clientOffer", "clientIceCandidates", "status"}
      [] op = "signaling.sendAnswerFromHost" ->
            {"hostAnswer", "hostIceCandidates", "status", "connectedAt"}
      [] op \in {"session.end", "signaling.clientDisconnect"} ->
            {"status", "endedAt", "endNotificationSent"}
      [] op = "signaling.updateStatus" ->
            IF in.status = "connected" THEN {"status", "connectedAt"}
            ELSE {"status", "endedAt", "endNotificationSent"}
      [] OTHER -> {}

\* The row holds what a request of handler op wrote.
Holds(op, in, row) ==
    CASE op = "signaling.sendOffer" -> row.hostOffer = in.offer
      [] op = "signaling.join" ->
            /\ in.clientName # UNDEFINED => row.clientName = in.clientName
            /\ row.clientIp = Head(in.forwardedFor)
            /\ row.startNotificationSent
      [] op = "signaling.sendAnswer" ->
            row.clientAnswer = in.answer /\ row.status = "connected"
      [] op = "signaling.sendIceCandidate" ->
            Contains(StoredList(row[CHOOSE f \in Writes(op, in) : TRUE]), in.candidate)
      [] op = "signaling.sendOfferFromClient" ->
            /\ row.clientOffer = JSONstringifyObject(in.offer)
            /\ row.clientIceCandidates = IceText(in.iceCandidates)
            /\ row.status = "connecting"
      [] op = "signaling.sendAnswerFromHost" ->
            /\ row.hostAnswer = JSONstringifyObject(in.answer)
            /\ row.hostIceCandidates = IceText(in.iceCandidates)
            /\ row.status = "connected"
      [] op \in {"session.end", "signaling.clientDisconnect"} ->
            row.status = "disconnected" /\ row.endNotificationSent
      [] op = "signaling.updateStatus" -> row.status = in.status
      [] OTHER -> TRUE

\* C37: when two requests on one session that write different columns have
\* both completed, in whatever order their store reads and writes ran, each
\* column holds the value its request wrote.  (The step is the completion of
\* the second of the only two requests started; last is the first.)
C37_DisjointWritesBothTakeEffect ==
    [][(/\ requests' = 2
        /\ \A p \in Procs : procs'[p].pc = "idle"
        /\ last' # last
        /\ last.outcome = OK /\ last'.outcome = OK
        /\ last.in.sid = last'.in.sid
        /\ Writes(last.op, last.in) # {} /\ Writes(last'.op, last'.in) # {}
        /\ Writes(last.op, last.in) \cap Writes(last'.op, last'.in) = {}) =>
           /\ Holds(last.op, last.in, sessions'[last'.in.sid])
           /\ Holds(last'.op, last'.in, sessions'[last'.in.sid])]_vars

\* C37 witness: a join is in flight after its write of clientName and
\* clientIp, the host's sendOffer has completed meanwhile, and the row holds
\* both the client's name and the offer.
C37_Witness ==
    \E p \in Procs :
        /\ procs[p].pc = "running"
        /\ procs[p].op = "signaling.join"
        /\ Head(procs[p].calls).call = "notifyOwner"
        /\ last.op = "signaling.sendOffer"
        /\ last.outcome = OK
        /\ sessions[last.in.sid].hostOffer = last.in.offer
        /\ sessions[last.in.sid].clientName = procs[p].in.clientName
        /\ procs[p].in.clientName \in ClientNames

\* The session the client page joined.
Joined == sessions[pages.client.in.sid]

\* The client page waits in the lobby, polling, and the host's offer is
\* stored.
OfferAwaitsPollingClient ==
    /\ pages.client.pollingRef
    /\ pages.client.state = "lobby"
    /\ Truthy(Joined.hostOffer)

JoinedIsTerminal ==
    pages.client.in.sid \in DOMAIN sessions /\ Joined.status \in Terminal

VerifyStep ==
    /\ last'.op = "auth.verifyCode"
    /\ (last' # last \/ verificationCodes' # verificationCodes)

\* C39 (amended): a code issued for an email makes verifyCode succeed at most once.
\* A verifyCode succeeds only with the stored code and removes the entry; one
\* that finds the entry expired removes it and fails, whatever the code; one
\* that finds no entry fails; so the verifyCode that follows a success with
\* the same email and code fails, and an entry appears only through
\* requestVerificationCode.  A verifyCode with a code other than the stored,
\* unexpired one fails and leaves the entry unchanged; no call touches the
\* entry of another email.
C39_CodeVerifiesAtMostOnce ==
    [][/\ VerifyStep =>
             LET key == toLowerCase(last'.in.email)
                 stored == verificationCodes[key]
                 after == verificationCodes'[key]
                 expired == stored # <<>> /\ now > stored[1].expiresAt
                 matches == stored # <<>> /\ stored[1].code = last'.in.code
             IN /\ \A e \in StoredEmails \ {key} :
                      verificationCodes'[e] = verificationCodes[e]
                /\ last'.outcome = OK => (matches /\ ~expired /\ after = <<>>)
                /\ stored = <<>> => (last'.outcome = NoCode /\ after = <<>>)
                /\ expired => (last'.outcome = CodeExpired /\ after = <<>>)
                /\ (matches /\ ~expired) =>
                      (last'.outcome \in {OK, UserNotFound} /\ after = <<>>)
                /\ (stored # <<>> /\ ~matches /\ ~expired) =>
                      (last'.outcome = InvalidCode /\ after = stored)
                /\ (last.op = "auth.verifyCode" /\ last.outcome = OK
                    /\ last.in.email = last'.in.email /\ last.in.code = last'.in.code) =>
                      last'.outcome = NoCode
       /\ \A e \in StoredEmails :
             (verificationCodes[e] = <<>> /\ verificationCodes'[e] # <<>>) =>
                last'.op = "auth.requestCode"]_vars

\* C39 as stated, its last clause: a verifyCode with a code other than the
\* stored one leaves the stored entry unchanged, whether or not the entry has
\* expired.
C39_NonMatchingKeepsEntry ==
    [][VerifyStep =>
          LET key == toLowerCase(last'.in.email)
              stored == verificationCodes[key]
          IN (stored # <<>> /\ stored[1].code # last'.in.code) =>
                verificationCodes'[key] = stored]_vars

\* C39 witness: a code requested earlier was verified, the address typed in
\* another case, and its entry is gone.
C39_Witness ==
    /\ last.op = "auth.verifyCode"
    /\ last.outcome = OK
    /\ last.in.email # toLowerCase(last.in.email)
    /\ verificationCodes[toLowerCase(last.in.email)] = <<>>
    /\ now > 0

\* C40: the client page creates at most one peer connection and sends at
\* most one sendAnswer per joined session, however many poll callbacks that
\* overlap observe a hostOffer.
C40_OnePeerConnectionOneAnswer ==
    pages.client.pcs <= 1 /\ pages.client.answers <= 1

====
